---- MODULE Spec2Model ----
(***************************************************************************)
(* Model of aviary/mission/phase_builder_base.py: the registry of phase    *)
(* builder types, the dispatch from phase info to a builder, the per-class *)
(* registry of supported initial guesses and the phase info <-> builder    *)
(* conversion of PhaseBuilderBase.                                         *)
(***************************************************************************)
EXTENDS Integers, Sequences, FiniteSets, TLC

VARIABLES
    registry,    \* _registered_phase_builder_types (module-level list)
    meta,        \* the _initial_guesses_meta_data_ dict of each class that defines one
    d,           \* the (name, phase info) the caller started from, as it was then
    held,        \* the (name, phase info dict) the caller holds now; the dict is
                 \* the object passed to the calls, which may change it in place
    builder,     \* the phase builder object the caller holds, NoBuilder when none
    trip,        \* conversions made in a row since d: dict -> builder -> dict ...
    last,        \* what the last call was, what it raised and what it returned
    phase,       \* the phase handle the caller holds (the one a subtype keeps as
                 \* self.phase), with the registrations made on it; NoPhase when none
    constraints, \* the constraints mapping the caller holds; the calls it is
                 \* passed to may change it in place
    calls,       \* how many times each state/constraint helper has been called
    prob         \* the mission problem: its aviary_inputs, the phase info it
                 \* holds and the phases add_phases has built; NoProblem when none

vars == <<registry, meta, d, held, builder, trip, last, phase, constraints, calls, prob>>

----------------------------------------------------------------------------
(* Bounds of the model *)

MaxReg == 3        \* longest registry explored
MaxMeta == 2       \* most guess-registry entries explored, all classes together
MaxTrips == 2      \* most dict -> builder -> dict round trips explored in a row
MaxPhases == 2     \* most phase objects built
MaxCalls == 3      \* most state/constraint helper calls on one phase
MaxConstraints == 2  \* most entries of a constraints mapping

----------------------------------------------------------------------------
(* Values *)

None == "None"
Unitless == "unitless"

\* Concrete phase builder types.  TA and TB derive from PhaseBuilderBase and
\* each define their own _initial_guesses_meta_data_ dict; TN derives from TA,
\* defines no dict of its own and overrides from_phase_info as a recognizer.
Types == {"TA", "TB", "TN"}

GuessKeys == {"g1", "g2"}
OptKeys == {"o1", "o2"}
TopKeys == {"subsystem_options", "user_options", "initial_guesses", "external_subsystems"}
Names == {"cruise"}

\* cls._initial_guesses_meta_data_ is a class attribute: a class that does not
\* define it reads (and writes into) the dict of the nearest base that does.
MetaOwner(cls) == IF cls = "TN" THEN "TA" ELSE cls

MetaOwners == {MetaOwner(t) : t \in Types}

\* The keys of an ordered dict kept as a sequence of entries.
RECURSIVE SeqKeys(_)
SeqKeys(s) == IF s = <<>> THEN {} ELSE {Head(s).key} \cup SeqKeys(Tail(s))

Range(s) == {s[i] : i \in 1..Len(s)}

----------------------------------------------------------------------------
(* Phase info: the nested dict the caller declares a phase with *)

\* A user_options value: a bare value (bool, number, string, list), or a Python
\* tuple of two items.  A (value, unit) pair and a bare pair of bounds given
\* without a unit are both tuples: isinstance(value, tuple) cannot tell them
\* apart, and neither can this record.
Bare(v) == [tup |-> FALSE, v |-> v, u |-> "-"]
Pair(a, b) == [tup |-> TRUE, v |-> a, u |-> b]

EmptyDict == [k \in {} |-> None]

OptionValues(k) ==
    IF k = "o1"
    THEN {Bare("v1"), Pair("v1", Unitless), Pair("v1", "kn"), Pair("lo", "hi")}
    ELSE {Bare("v2"), Pair("v2", "ft")}

UserOptionDicts ==
    UNION {{f \in [S -> UNION {OptionValues(k) : k \in S}] :
                \A k \in S : f[k] \in OptionValues(k)} : S \in SUBSET OptKeys}

GuessValue(k) == [val |-> IF k = "g1" THEN "100" ELSE "200", units |-> "s"]

GuessDicts == {[k \in S |-> GuessValue(k)] : S \in SUBSET GuessKeys}

SubsystemOptionDicts == {{"core_aerodynamics"}}

ExternalSubsystemLists == {<<"ext">>}

\* A phase info dict: the set of top-level keys it has, and the value under
\* each (the empty value under a key it does not have).
PhaseInfoDict(keys, so, uo, ig, es) ==
    [keys |-> keys,
     subsystem_options |-> IF "subsystem_options" \in keys THEN so ELSE {},
     user_options |-> IF "user_options" \in keys THEN uo ELSE EmptyDict,
     initial_guesses |-> IF "initial_guesses" \in keys THEN ig ELSE EmptyDict,
     external_subsystems |-> IF "external_subsystems" \in keys THEN es ELSE <<>>]

PhaseInfosOver(uos, igs) ==
    {PhaseInfoDict(keys, so, uo, ig, es) :
        keys \in SUBSET TopKeys, so \in SubsystemOptionDicts, uo \in uos,
        ig \in igs, es \in ExternalSubsystemLists}

----------------------------------------------------------------------------
(* The phase builder object *)

NoBuilder ==
    [cls |-> None, name |-> None, core_subsystems |-> <<>>,
     external_subsystems |-> <<>>, subsystem_options |-> {},
     user_options |-> EmptyDict, initial_guesses |-> EmptyDict,
     ode_class |-> None, transcription |-> None,
     is_analytic_phase |-> FALSE, num_nodes |-> 0, meta_data |-> None]

default_name == "_unknown phase_"
default_meta_data == "_MetaData"
default_num_nodes == 5

\* The options model built by default_options_class(user_options): every
\* option is stored as a value with its unit.
OptionsInit(user_options) ==
    [k \in DOMAIN user_options |->
        IF user_options[k].tup
        THEN [val |-> user_options[k].v, units |-> user_options[k].u]
        ELSE [val |-> user_options[k].v, units |-> Unitless]]

\* user_options.to_phase_info(): the compact format, a unitless option is
\* written as its bare value and any other as (value, unit).
OptionsToPhaseInfo(options) ==
    [k \in DOMAIN options |->
        IF options[k].units = Unitless
        THEN Bare(options[k].val)
        ELSE Pair(options[k].val, options[k].units)]

\* AviaryValues(mapping): a copy holding (value, units) under each key.
AviaryValues(mapping) == [k \in DOMAIN mapping |-> mapping[k]]

\* get_keys(initial_guesses)
get_keys(values) == DOMAIN values

\* The loop of validate_initial_guesses over the keys.
RECURSIVE ValidateKeys(_, _)
ValidateKeys(keys, supported) ==
    IF keys = {} THEN "ok"
    ELSE LET key == CHOOSE k \in keys : TRUE IN
         IF key \notin supported THEN "TypeError"
         ELSE ValidateKeys(keys \ {key}, supported)

\* A validation that raises only when none of the guesses is supported.
validate_any_supported(self, m) ==
    IF get_keys(self.initial_guesses) \cap SeqKeys(m[MetaOwner(self.cls)]) = {}
          /\ self.initial_guesses # EmptyDict
    THEN "TypeError" ELSE "ok"

\* validate_initial_guesses: "ok", or the exception raised.
validate_initial_guesses(self, m) ==
    IF self.initial_guesses = EmptyDict THEN "ok"
    ELSE ValidateKeys(get_keys(self.initial_guesses), SeqKeys(m[MetaOwner(self.cls)]))

\* A constructor that hands out the object it was setting up when the
\* validation of the guesses raised.
construct_leaking(cls, name, kw, m) ==
    LET self == [NoBuilder EXCEPT !.cls = cls, !.name = name,
                                  !.initial_guesses = kw.initial_guesses]
    IN  [outcome |-> validate_initial_guesses(self, m), builder |-> self]

\* PhaseBuilderBase.__init__ with the arguments from_phase_info passes; the
\* others (ode_class, is_analytic_phase, num_nodes) take their defaults.
\* Returns the exception raised ("ok" when none) and the new object.
Construct(cls, name, kw, m) ==
    LET self == [cls |-> cls,
                 name |-> IF name = None THEN default_name ELSE name,
                 core_subsystems |-> kw.core_subsystems,
                 external_subsystems |-> kw.external_subsystems,
                 subsystem_options |-> kw.subsystem_options,
                 user_options |-> OptionsInit(kw.user_options),
                 initial_guesses |-> kw.initial_guesses,
                 ode_class |-> None,
                 transcription |-> kw.transcription,
                 is_analytic_phase |-> FALSE,
                 num_nodes |-> default_num_nodes,
                 meta_data |-> IF kw.meta_data = None THEN default_meta_data
                               ELSE kw.meta_data]
        exc == validate_initial_guesses(self, m)
    IN  [outcome |-> exc, builder |-> IF exc = "ok" THEN self ELSE NoBuilder]

----------------------------------------------------------------------------
(* Phase info <-> builder *)

\* A user_options normalization that gives every entry the unit 'unitless'.
wrap_dropping_units(user_options) ==
    [k \in DOMAIN user_options |-> Pair(user_options[k].v, Unitless)]

\* The loop at the head of from_phase_info: every user_options value that is
\* not a tuple is replaced, in the caller's dict, by (value, 'unitless').
WrapBareOptions(user_options) ==
    [k \in DOMAIN user_options |->
        IF ~user_options[k].tup
        THEN Pair(user_options[k].v, Unitless)
        ELSE user_options[k]]

\* A from_phase_info that reads the optional keys with setdefault, so that the
\* caller's dict gets the keys it lacked.
from_phase_info_setdefault(cls, name, info, m) ==
    IF "user_options" \notin info.keys
    THEN [outcome |-> "KeyError", info |-> info, builder |-> NoBuilder]
    ELSE
    LET wrapped == [info EXCEPT !.user_options = WrapBareOptions(info.user_options),
                                !.keys = @ \cup {"subsystem_options", "initial_guesses",
                                                 "external_subsystems"}]
        kw == [subsystem_options |-> wrapped.subsystem_options,
               user_options |-> wrapped.user_options,
               initial_guesses |-> AviaryValues(wrapped.initial_guesses),
               external_subsystems |-> wrapped.external_subsystems,
               core_subsystems |-> <<>>,
               meta_data |-> None,
               transcription |-> None]
        made == Construct(cls, name, kw, m)
    IN  [outcome |-> made.outcome, info |-> wrapped, builder |-> made.builder]

\* A from_phase_info that takes a phase info without user_options as one with
\* empty user_options.
from_phase_info_defaulting(cls, name, info, m) ==
    LET wrapped == [info EXCEPT !.user_options = WrapBareOptions(info.user_options)]
        kw == [subsystem_options |->
                   IF "subsystem_options" \in wrapped.keys
                   THEN wrapped.subsystem_options ELSE {},
               user_options |-> wrapped.user_options,
               initial_guesses |->
                   AviaryValues(IF "initial_guesses" \in wrapped.keys
                                THEN wrapped.initial_guesses ELSE EmptyDict),
               external_subsystems |->
                   IF "external_subsystems" \in wrapped.keys
                   THEN wrapped.external_subsystems ELSE <<>>,
               core_subsystems |-> <<>>,
               meta_data |-> None,
               transcription |-> None]
        made == Construct(cls, name, kw, m)
    IN  [outcome |-> made.outcome, info |-> wrapped, builder |-> made.builder]

\* A from_phase_info that wraps the bare user options only once the
\* constructor has accepted the guesses.
from_phase_info_validating_first(cls, name, info, m) ==
    IF "user_options" \notin info.keys
    THEN [outcome |-> "KeyError", info |-> info, builder |-> NoBuilder]
    ELSE
    LET wrapped == [info EXCEPT !.user_options = WrapBareOptions(info.user_options)]
        kw == [subsystem_options |->
                   IF "subsystem_options" \in wrapped.keys
                   THEN wrapped.subsystem_options ELSE {},
               user_options |-> wrapped.user_options,
               initial_guesses |->
                   AviaryValues(IF "initial_guesses" \in wrapped.keys
                                THEN wrapped.initial_guesses ELSE EmptyDict),
               external_subsystems |->
                   IF "external_subsystems" \in wrapped.keys
                   THEN wrapped.external_subsystems ELSE <<>>,
               core_subsystems |-> <<>>,
               meta_data |-> None,
               transcription |-> None]
        made == Construct(cls, name, kw, m)
    IN  [outcome |-> made.outcome,
         info |-> IF made.outcome = "ok" THEN wrapped ELSE info,
         builder |-> made.builder]

\* PhaseBuilderBase.from_phase_info(cls, name, phase_info) with core_subsystems,
\* meta_data and transcription left at None.  Returns the exception raised
\* ("ok" when none), the caller's dict as the call leaves it, and the builder.
from_phase_info(cls, name, info, m) ==
    IF "user_options" \notin info.keys
    THEN [outcome |-> "KeyError", info |-> info, builder |-> NoBuilder]
    ELSE
    LET wrapped == [info EXCEPT !.user_options = WrapBareOptions(info.user_options)]
        kw == [subsystem_options |->
                   IF "subsystem_options" \in wrapped.keys
                   THEN wrapped.subsystem_options ELSE {},
               user_options |-> wrapped.user_options,
               initial_guesses |->
                   AviaryValues(IF "initial_guesses" \in wrapped.keys
                                THEN wrapped.initial_guesses ELSE EmptyDict),
               external_subsystems |->
                   IF "external_subsystems" \in wrapped.keys
                   THEN wrapped.external_subsystems ELSE <<>>,
               core_subsystems |-> <<>>,
               meta_data |-> None,
               transcription |-> None]
        made == Construct(cls, name, kw, m)
    IN  [outcome |-> made.outcome, info |-> wrapped, builder |-> made.builder]

\* The top-level keys to_phase_info writes.
ToPhaseInfoKeys == {"subsystem_options", "user_options", "initial_guesses"}

\* PhaseBuilderBase.to_phase_info(self): the pair (name, phase_info).
to_phase_info(self) ==
    [name |-> self.name,
     info |-> PhaseInfoDict(ToPhaseInfoKeys,
                            self.subsystem_options,
                            OptionsToPhaseInfo(self.user_options),
                            [k \in DOMAIN self.initial_guesses |-> self.initial_guesses[k]],
                            <<>>)]

----------------------------------------------------------------------------
(* The registry of phase builder types and the dispatch *)

\* A register that never looks for a repeat.
register_unchecked(phase_builder_t, check_repeats, reg) ==
    IF phase_builder_t = None
    THEN [outcome |-> "ok", registry |-> reg, ret |-> "decorator"]
    ELSE [outcome |-> "ok", registry |-> Append(reg, phase_builder_t),
          ret |-> phase_builder_t]

\* A register that puts the new type first.
register_in_front(phase_builder_t, check_repeats, reg) ==
    IF phase_builder_t = None
    THEN [outcome |-> "ok", registry |-> reg, ret |-> "decorator"]
    ELSE IF check_repeats /\ phase_builder_t \in Range(reg)
    THEN [outcome |-> "ValueError", registry |-> reg, ret |-> None]
    ELSE [outcome |-> "ok", registry |-> <<phase_builder_t>> \o reg,
          ret |-> phase_builder_t]

\* register(phase_builder_t, check_repeats=...): the exception raised ("ok"
\* when none), the registry afterwards and the value returned.  Called with no
\* type it returns the decorator, a closure over check_repeats.
register(phase_builder_t, check_repeats, reg) ==
    IF phase_builder_t = None
    THEN [outcome |-> "ok", registry |-> reg, ret |-> "decorator"]
    ELSE IF check_repeats /\ phase_builder_t \in Range(reg)
    THEN [outcome |-> "ValueError", registry |-> reg, ret |-> None]
    ELSE [outcome |-> "ok", registry |-> Append(reg, phase_builder_t),
          ret |-> phase_builder_t]

\* The decorator register() returns: decorator(phase_builder_t) calls
\* register(phase_builder_t, check_repeats=check_repeats).
decorator(phase_builder_t, check_repeats, reg) ==
    register(phase_builder_t, check_repeats, reg)

\* What the recognizer type TN looks for in a phase info before it takes it.
Recognizes(info) == "external_subsystems" \in info.keys

\* phase_builder_t.from_phase_info(name, phase_info) as the dispatch calls it.
\* TA and TB inherit PhaseBuilderBase.from_phase_info; TN returns None for a
\* phase info it does not recognize and defers to the inherited method otherwise.
TypeFromPhaseInfo(phase_builder_t, name, info, m) ==
    IF phase_builder_t = "TN" /\ ~Recognizes(info)
    THEN [outcome |-> "ok", info |-> info, builder |-> NoBuilder]
    ELSE from_phase_info(phase_builder_t, name, info, m)

\* "is not None" of a builder
IsNotNone(b) == b # NoBuilder

\* A dispatch that returns whatever the first type gives, None included.
AcceptedAnything(b) == TRUE

\* "if builder is not None: return builder" in phase_info_to_builder
Accepted(b) == IsNotNone(b)

\* The loop of phase_info_to_builder from registry position i on; called is the
\* list of types whose from_phase_info has been called so far.
RECURSIVE DispatchFrom(_, _, _, _, _, _)
DispatchFrom(i, name, info, reg, m, called) ==
    IF i > Len(reg)
    THEN [outcome |-> "ValueError", info |-> info, builder |-> NoBuilder,
          called |-> called]
    ELSE LET r == TypeFromPhaseInfo(reg[i], name, info, m)
             now == Append(called, reg[i])
         IN  IF r.outcome # "ok"
             THEN [outcome |-> r.outcome, info |-> r.info, builder |-> NoBuilder,
                   called |-> now]
             ELSE IF Accepted(r.builder)
             THEN [outcome |-> "ok", info |-> r.info, builder |-> r.builder,
                   called |-> now]
             ELSE DispatchFrom(i + 1, name, r.info, reg, m, now)

\* A dispatch that takes an exception from a type as one more failed attempt.
RECURSIVE DispatchCatchingFrom(_, _, _, _, _, _)
DispatchCatchingFrom(i, name, info, reg, m, called) ==
    IF i > Len(reg)
    THEN [outcome |-> "ValueError", info |-> info, builder |-> NoBuilder,
          called |-> called]
    ELSE LET r == TypeFromPhaseInfo(reg[i], name, info, m)
             now == Append(called, reg[i])
         IN  IF r.outcome = "ok" /\ Accepted(r.builder)
             THEN [outcome |-> "ok", info |-> r.info, builder |-> r.builder,
                   called |-> now]
             ELSE DispatchCatchingFrom(i + 1, name, r.info, reg, m, now)

phase_info_to_builder_catching(name, info, reg, m) ==
    DispatchCatchingFrom(1, name, info, reg, m, <<>>)

\* A dispatch that walks the registry from its end.
RECURSIVE Reverse(_)
Reverse(s) == IF s = <<>> THEN <<>> ELSE Append(Reverse(Tail(s)), Head(s))

phase_info_to_builder_reversed(name, info, reg, m) ==
    DispatchFrom(1, name, info, Reverse(reg), m, <<>>)

\* phase_info_to_builder(name, phase_info)
phase_info_to_builder(name, info, reg, m) == DispatchFrom(1, name, info, reg, m, <<>>)

----------------------------------------------------------------------------
(* The per-class registry of supported initial guesses *)

\* An InitialGuess object with the description it is registered under.
InitialGuesses ==
    {[key |-> "g1", apply_initial_guess |-> "apply_a", desc |-> "first"],
     [key |-> "g1", apply_initial_guess |-> "apply_b", desc |-> "second"],
     [key |-> "g2", apply_initial_guess |-> "apply_a", desc |-> "first"]}

\* meta_data[name] = dict(...) on an insertion-ordered dict: a new key goes to
\* the end, an existing key keeps its position and takes the new value.
RECURSIVE DictSet(_, _)
DictSet(dict, entry) ==
    IF dict = <<>> THEN <<entry>>
    ELSE IF Head(dict).key = entry.key THEN <<entry>> \o Tail(dict)
    ELSE <<Head(dict)>> \o DictSet(Tail(dict), entry)

\* cls._add_initial_guess_meta_data(initial_guess, desc): the exception raised
\* ("ok" when none) and the guess registries afterwards.
_add_initial_guess_meta_data(cls, initial_guess, m) ==
    [outcome |-> "ok",
     meta |-> [m EXCEPT ![MetaOwner(cls)] = DictSet(m[MetaOwner(cls)], initial_guess)]]

\* The loop of apply_initial_guesses over the registry: the guesses applied, in
\* order, and the list returned.
RECURSIVE ApplyLoop(_, _, _, _)
ApplyLoop(meta_data, self, applied, not_applied) ==
    IF meta_data = <<>> THEN [applied |-> applied, not_applied |-> not_applied]
    ELSE LET key == Head(meta_data).key IN
         IF key \in DOMAIN self.initial_guesses
         THEN ApplyLoop(Tail(meta_data), self,
                        Append(applied,
                               [fn |-> Head(meta_data).apply_initial_guess,
                                key |-> key,
                                phase_name |-> self.name,
                                val |-> self.initial_guesses[key].val,
                                units |-> self.initial_guesses[key].units]),
                        not_applied)
         ELSE ApplyLoop(Tail(meta_data), self, applied, Append(not_applied, key))

\* An apply that returns the guesses held that the class does not support.
RECURSIVE KeysNotIn(_, _)
KeysNotIn(keys, supported) ==
    IF keys = {} THEN <<>>
    ELSE LET key == CHOOSE k \in keys : TRUE IN
         (IF key \in supported THEN <<>> ELSE <<key>>)
             \o KeysNotIn(keys \ {key}, supported)

apply_returning_unsupported(self, m) ==
    [applied |-> ApplyLoop(m[MetaOwner(self.cls)], self, <<>>, <<>>).applied,
     not_applied |-> KeysNotIn(DOMAIN self.initial_guesses,
                               SeqKeys(m[MetaOwner(self.cls)]))]

\* An apply that walks the guess registry from its end.
apply_initial_guesses_reversed(self, m) ==
    ApplyLoop(Reverse(m[MetaOwner(self.cls)]), self, <<>>, <<>>)

\* apply_initial_guesses(self, prob, traj_name, phase)
apply_initial_guesses(self, m) == ApplyLoop(m[MetaOwner(self.cls)], self, <<>>, <<>>)

----------------------------------------------------------------------------
(* Building the phase *)

\* The ODE class each type falls back on: TB overrides the class attribute,
\* TA and TN inherit PhaseBuilderBase.default_ode_class.
default_ode_class(cls) == IF cls = "TB" THEN "TB_ODE" ELSE "EnergyODE"

\* The types the caller constructs directly.
BuilderTypes == {"TA", "TB"}

OdeClasses == {None, "CustomODE"}
Transcriptions == {None, "custom_transcription"}
NumNodes == {default_num_nodes, 3}
AviaryOptions == {None, "aviary_options"}

\* A transcription object as a phase holds it: one the caller supplied (only
\* its identity is known), or the Radau the builder makes by default.
GivenTranscription(t) ==
    [obj |-> t, num_segments |-> "-", order |-> "-", compressed |-> FALSE]

Radau(num_segments, order, compressed) ==
    [obj |-> "Radau", num_segments |-> num_segments, order |-> order,
     compressed |-> compressed]

\* A phase handle: id tells one object from another, num_nodes is 0 and
\* transcription is GivenTranscription(None) when the keyword is not passed.
\* states and constraint_calls are the registrations made on it, in order.
NoPhase ==
    [id |-> 0, kind |-> None, ode_class |-> None,
     transcription |-> GivenTranscription(None), num_nodes |-> 0,
     ode_init_kwargs |-> [aviary_options |-> None, subsystem_options |-> {},
                          core_subsystems |-> <<>>, external_subsystems |-> <<>>],
     time_options |-> [fix_initial |-> "_unspecified", duration_bounds |-> "_unspecified",
                       units |-> "_unspecified", targets |-> "_unspecified",
                       duration_ref |-> "_unspecified"],
     states |-> <<>>, constraint_calls |-> <<>>]

\* PhaseBuilderBase.__init__ with every keyword: the attributes set after the
\* validation of the guesses are set only if it did not raise.
__init__(cls, name, kw, m) ==
    LET made == Construct(cls, name, kw, m) IN
    IF made.outcome # "ok" THEN made
    ELSE [outcome |-> "ok",
          builder |-> [made.builder EXCEPT !.ode_class = kw.ode_class,
                                           !.is_analytic_phase = kw.is_analytic_phase,
                                           !.num_nodes = kw.num_nodes]]

\* make_default_transcription(self): the exception raised ("ok" when none) and
\* the transcription made.
make_default_transcription(self) ==
    IF "num_segments" \notin DOMAIN self.user_options
           \/ "order" \notin DOMAIN self.user_options
    THEN [outcome |-> "KeyError", transcription |-> GivenTranscription(None)]
    ELSE [outcome |-> "ok",
          transcription |-> Radau(self.user_options["num_segments"].val,
                                  self.user_options["order"].val, TRUE)]

\* _extra_ode_init_kwargs(self): no extra keyword in the base class.
_extra_ode_init_kwargs(self) == EmptyDict

\* The method as the subtypes have it: TA inherits the base's, TB and TN
\* override it.  TB returns a keyword of its own and the three keywords
\* build_phase assigns afterwards, TN a keyword of its own and aviary_options.
ExtraOdeInitKwargs(self) ==
    CASE self.cls = "TB" ->
            [k \in {"throttle_enforcement", "subsystem_options", "core_subsystems",
                    "external_subsystems"} |->
                CASE k = "throttle_enforcement" -> "path_constraint"
                  [] k = "subsystem_options" -> {"subtype_subsystem"}
                  [] k = "core_subsystems" -> <<"subtype_core">>
                  [] k = "external_subsystems" -> <<"subtype_ext">>]
      [] self.cls = "TN" ->
            [k \in {"ground_roll", "aviary_options"} |->
                IF k = "ground_roll" THEN "True" ELSE "subtype_options"]
      [] OTHER -> _extra_ode_init_kwargs(self)

\* {**first, **rest}: the keys of both dicts, a key of both takes the value
\* of rest.
Merge(first, rest) ==
    [k \in DOMAIN first \cup DOMAIN rest |->
        IF k \in DOMAIN rest THEN rest[k] ELSE first[k]]

\* The ode_init_kwargs dict build_phase assembles.  self.subsystem_options is
\* never None (the constructor replaces None by an empty dict), so the key is
\* always assigned.
OdeInitKwargs(self, aviary_options) ==
    LET given == IF aviary_options = None THEN "AviaryValues()" ELSE aviary_options
        extra == ExtraOdeInitKwargs(self)
        merged == Merge([k \in {"aviary_options"} |-> given], extra)
        with_options == Merge(merged, [k \in {"subsystem_options"} |->
                                           self.subsystem_options])
        with_core == Merge(with_options,
                           [k \in {"core_subsystems"} |-> self.core_subsystems])
    IN  Merge(with_core,
              [k \in {"external_subsystems"} |-> self.external_subsystems])

\* The phase object build_phase makes once its inputs are resolved:
\* dm.AnalyticPhase(ode_class, ode_init_kwargs, num_nodes) for an analytic
\* builder, dm.Phase(ode_class, transcription, ode_init_kwargs) otherwise.
NewPhase(self, ode_class, transcription, aviary_options, id) ==
    [NoPhase EXCEPT
        !.id = id,
        !.kind = IF self.is_analytic_phase THEN "AnalyticPhase" ELSE "Phase",
        !.ode_class = ode_class,
        !.transcription = IF self.is_analytic_phase THEN GivenTranscription(None)
                          ELSE transcription,
        !.num_nodes = IF self.is_analytic_phase THEN self.num_nodes ELSE 0,
        !.ode_init_kwargs = OdeInitKwargs(self, aviary_options)]

ResolvedOdeClass(self) ==
    IF self.ode_class = None THEN default_ode_class(self.cls) ELSE self.ode_class

\* A build_phase that makes the default transcription whatever the builder is.
build_phase_always_default(self, aviary_options, id) ==
    LET made == make_default_transcription(self) IN
    IF made.outcome # "ok"
    THEN [outcome |-> made.outcome, made_default |-> TRUE, self |-> self,
          phase |-> NoPhase]
    ELSE [outcome |-> "ok", made_default |-> TRUE, self |-> self,
          phase |-> NewPhase(self, ResolvedOdeClass(self), made.transcription,
                             aviary_options, id)]

\* A build_phase that keeps the ODE class it resolved in the builder.
build_phase_caching(self, aviary_options, id) ==
    LET need == self.transcription = None /\ ~self.is_analytic_phase
        made == make_default_transcription(self)
        kept == [self EXCEPT !.ode_class = ResolvedOdeClass(self)]
    IN
    IF need /\ made.outcome # "ok"
    THEN [outcome |-> made.outcome, made_default |-> TRUE, self |-> kept,
          phase |-> NoPhase]
    ELSE [outcome |-> "ok", made_default |-> need, self |-> kept,
          phase |-> NewPhase(self, ResolvedOdeClass(self),
                             IF need THEN made.transcription
                             ELSE GivenTranscription(self.transcription),
                             aviary_options, id)]

\* build_phase(self, aviary_options): the exception raised ("ok" when none),
\* whether make_default_transcription was called, the builder as the call
\* leaves it and the new phase, the id-th phase object made so far.
build_phase(self, aviary_options, id) ==
    LET ode_class == ResolvedOdeClass(self)
        need == self.transcription = None /\ ~self.is_analytic_phase
        made == make_default_transcription(self)
    IN
    IF need /\ made.outcome # "ok"
    THEN [outcome |-> made.outcome, made_default |-> TRUE, self |-> self,
          phase |-> NoPhase]
    ELSE [outcome |-> "ok", made_default |-> need, self |-> self,
          phase |-> NewPhase(self, ode_class,
                             IF need THEN made.transcription
                             ELSE GivenTranscription(self.transcription),
                             aviary_options, id)]

----------------------------------------------------------------------------
(* The registrations on the phase under construction *)

Helpers ==
    {"add_velocity_state", "add_mass_state", "add_distance_state",
     "add_flight_path_angle_state", "add_altitude_state", "add_altitude_constraint"}

NoCalls == [h \in Helpers |-> 0]

\* The keyword a helper does not pass: the phase falls back on its own default.
Unspecified == "_unspecified"

\* user_options.get_val(key, units=units): the value in the units asked for.
get_val(user_options, key, units) ==
    IF user_options[key].units = units THEN user_options[key].val
    ELSE user_options[key].val \o " " \o user_options[key].units \o "->" \o units

\* The five scaling options each state helper reads.
StateOptionKeys(prefix) ==
    {prefix \o "_lower", prefix \o "_upper", prefix \o "_ref", prefix \o "_ref0",
     prefix \o "_defect_ref"}

\* phase.add_state(name, fix_initial=, fix_final=, lower=, upper=, units=,
\* rate_source=, targets=, ref=, ref0=, defect_ref=)
add_state(ph, name, fix_initial, fix_final, lower, upper, units, rate_source, targets, ref, ref0, defect_ref) ==
    [ph EXCEPT !.states = Append(@,
        [name |-> name, fix_initial |-> fix_initial, fix_final |-> fix_final,
         lower |-> lower, upper |-> upper, units |-> units,
         rate_source |-> rate_source, targets |-> targets,
         ref |-> ref, ref0 |-> ref0, defect_ref |-> defect_ref])]

\* phase.add_boundary_constraint(name, **kwargs), phase.add_path_constraint(name, **kwargs)
add_boundary_constraint(ph, name, kwargs) ==
    [ph EXCEPT !.constraint_calls =
        Append(@, [kind |-> "boundary", name |-> name, kwargs |-> kwargs])]

add_path_constraint(ph, name, kwargs) ==
    [ph EXCEPT !.constraint_calls =
        Append(@, [kind |-> "path", name |-> name, kwargs |-> kwargs])]

\* phase.set_time_options(fix_initial=, duration_bounds=, units=, targets=,
\* duration_ref=): the options of the phase's time variable are replaced.
phase_set_time_options(ph, fix_initial, duration_bounds, units, targets, duration_ref) ==
    [ph EXCEPT !.time_options =
        [fix_initial |-> fix_initial, duration_bounds |-> duration_bounds,
         units |-> units, targets |-> targets, duration_ref |-> duration_ref]]

\* A helper ends with KeyError, registering nothing, when an option it reads
\* is not in user_options.
HelperResult(ph, user_options, keys, registered) ==
    IF keys \subseteq DOMAIN user_options
    THEN [outcome |-> "ok", phase |-> registered]
    ELSE [outcome |-> "KeyError", phase |-> ph]

\* self.set_time_options(user_options, targets)
set_time_options(ph, user_options, targets) ==
    HelperResult(ph, user_options, {"fix_initial", "duration_bounds", "duration_ref"},
        phase_set_time_options(ph, user_options["fix_initial"].val,
                               get_val(user_options, "duration_bounds", "s"), "s",
                               targets,
                               get_val(user_options, "duration_ref", "s")))

\* An add_velocity_state that reads the reference value as it is stored.
add_velocity_state_stored_ref(ph, user_options) ==
    HelperResult(ph, user_options, StateOptionKeys("velocity") \cup {"fix_initial"},
        add_state(ph, "Dynamic.Mission.VELOCITY", user_options["fix_initial"].val, "False",
                  get_val(user_options, "velocity_lower", "kn"),
                  get_val(user_options, "velocity_upper", "kn"), "kn",
                  "Dynamic.Mission.VELOCITY_RATE", "Dynamic.Mission.VELOCITY",
                  user_options["velocity_ref"].val,
                  get_val(user_options, "velocity_ref0", "kn"),
                  get_val(user_options, "velocity_defect_ref", "kn")))

add_velocity_state(ph, user_options) ==
    HelperResult(ph, user_options, StateOptionKeys("velocity") \cup {"fix_initial"},
        add_state(ph, "Dynamic.Mission.VELOCITY", user_options["fix_initial"].val, "False",
                  get_val(user_options, "velocity_lower", "kn"),
                  get_val(user_options, "velocity_upper", "kn"), "kn",
                  "Dynamic.Mission.VELOCITY_RATE", "Dynamic.Mission.VELOCITY",
                  get_val(user_options, "velocity_ref", "kn"),
                  get_val(user_options, "velocity_ref0", "kn"),
                  get_val(user_options, "velocity_defect_ref", "kn")))

\* An add_mass_state that leaves a phase that has the mass state as it is.
add_mass_state_once(ph, user_options) ==
    IF \E i \in 1..Len(ph.states) : ph.states[i].name = "Dynamic.Vehicle.MASS"
    THEN [outcome |-> "ok", phase |-> ph]
    ELSE HelperResult(ph, user_options, StateOptionKeys("mass") \cup {"fix_initial"},
        add_state(ph, "Dynamic.Vehicle.MASS", user_options["fix_initial"].val, "False",
                  get_val(user_options, "mass_lower", "lbm"),
                  get_val(user_options, "mass_upper", "lbm"), "lbm",
                  "Dynamic.Vehicle.Propulsion.FUEL_FLOW_RATE_NEGATIVE_TOTAL",
                  "Dynamic.Vehicle.MASS",
                  get_val(user_options, "mass_ref", "lbm"),
                  get_val(user_options, "mass_ref0", "lbm"),
                  get_val(user_options, "mass_defect_ref", "lbm")))

add_mass_state(ph, user_options) ==
    HelperResult(ph, user_options, StateOptionKeys("mass") \cup {"fix_initial"},
        add_state(ph, "Dynamic.Vehicle.MASS", user_options["fix_initial"].val, "False",
                  get_val(user_options, "mass_lower", "lbm"),
                  get_val(user_options, "mass_upper", "lbm"), "lbm",
                  "Dynamic.Vehicle.Propulsion.FUEL_FLOW_RATE_NEGATIVE_TOTAL", "Dynamic.Vehicle.MASS",
                  get_val(user_options, "mass_ref", "lbm"),
                  get_val(user_options, "mass_ref0", "lbm"),
                  get_val(user_options, "mass_defect_ref", "lbm")))

add_distance_state(ph, user_options, units) ==
    HelperResult(ph, user_options, StateOptionKeys("distance") \cup {"fix_initial"},
        add_state(ph, "Dynamic.Mission.DISTANCE", user_options["fix_initial"].val, "False",
                  get_val(user_options, "distance_lower", units),
                  get_val(user_options, "distance_upper", units), units,
                  "Dynamic.Mission.DISTANCE_RATE", Unspecified,
                  get_val(user_options, "distance_ref", units),
                  get_val(user_options, "distance_ref0", units),
                  get_val(user_options, "distance_defect_ref", units)))

add_flight_path_angle_state(ph, user_options) ==
    HelperResult(ph, user_options, StateOptionKeys("angle"),
        add_state(ph, "Dynamic.Mission.FLIGHT_PATH_ANGLE", "True", "False",
                  get_val(user_options, "angle_lower", "rad"),
                  get_val(user_options, "angle_upper", "rad"), "rad",
                  "Dynamic.Mission.FLIGHT_PATH_ANGLE_RATE", Unspecified,
                  get_val(user_options, "angle_ref", "rad"),
                  get_val(user_options, "angle_ref0", "rad"),
                  get_val(user_options, "angle_defect_ref", "rad")))

add_altitude_state(ph, user_options, units) ==
    HelperResult(ph, user_options, StateOptionKeys("alt"),
        add_state(ph, "Dynamic.Mission.ALTITUDE", Unspecified, "False",
                  get_val(user_options, "alt_lower", units),
                  get_val(user_options, "alt_upper", units), units,
                  "Dynamic.Mission.ALTITUDE_RATE", Unspecified,
                  get_val(user_options, "alt_ref", units),
                  get_val(user_options, "alt_ref0", units),
                  get_val(user_options, "alt_defect_ref", units)))

add_altitude_constraint(ph, user_options) ==
    HelperResult(ph, user_options, {"final_altitude", "alt_constraint_ref"},
        add_boundary_constraint(ph, "Dynamic.Mission.ALTITUDE",
            [k \in {"loc", "equals", "units", "ref"} |->
                CASE k = "loc" -> "final"
                  [] k = "equals" -> get_val(user_options, "final_altitude", "ft")
                  [] k = "units" -> "ft"
                  [] k = "ref" -> get_val(user_options, "alt_constraint_ref", "ft")]))

\* A pop that leaves the key in the dict.
pop_nothing(kwargs, key) == kwargs

\* kwargs.pop(key): the dict without the key
Pop(kwargs, key) == [k \in DOMAIN kwargs \ {key} |-> kwargs[k]]

\* kwargs[key] = value
SetItem(kwargs, key, value) ==
    [k \in DOMAIN kwargs \cup {key} |-> IF k = key THEN value ELSE kwargs[k]]

\* The loop of _add_user_defined_constraints from entry i of the mapping on.
RECURSIVE ConstraintLoop(_, _, _)
ConstraintLoop(i, ph, cs) ==
    IF i > Len(cs) THEN [outcome |-> "ok", phase |-> ph, constraints |-> cs]
    ELSE LET constraint_name == cs[i].name
             kwargs == cs[i].kwargs
         IN
         IF "type" \notin DOMAIN kwargs
         THEN [outcome |-> "KeyError", phase |-> ph, constraints |-> cs]
         ELSE IF kwargs["type"] = "boundary"
         THEN LET popped == Pop(kwargs, "type") IN
              IF "target" \in DOMAIN popped
              THEN LET fwd == SetItem(Pop(popped, "target"), "constraint_name",
                                      constraint_name)
                   IN  ConstraintLoop(i + 1,
                           add_boundary_constraint(ph, popped["target"], fwd),
                           [cs EXCEPT ![i].kwargs = fwd])
              ELSE ConstraintLoop(i + 1,
                       add_boundary_constraint(ph, constraint_name, popped),
                       [cs EXCEPT ![i].kwargs = popped])
         ELSE IF kwargs["type"] = "path"
         THEN LET popped == Pop(kwargs, "type") IN
              ConstraintLoop(i + 1, add_path_constraint(ph, constraint_name, popped),
                             [cs EXCEPT ![i].kwargs = popped])
         ELSE ConstraintLoop(i + 1, ph, cs)

\* An _add_user_defined_constraints that turns down a mapping with an entry
\* whose type is neither 'boundary' nor 'path'.
add_constraints_rejecting_other(ph, cs) ==
    IF \E i \in 1..Len(cs) :
           /\ "type" \in DOMAIN cs[i].kwargs
           /\ cs[i].kwargs["type"] \notin {"boundary", "path"}
    THEN [outcome |-> "ValueError", phase |-> ph, constraints |-> cs]
    ELSE ConstraintLoop(1, ph, cs)

\* self._add_user_defined_constraints(phase, constraints): the exception raised
\* ("ok" when none), the phase and the caller's mapping as the call leaves them.
_add_user_defined_constraints(ph, cs) == ConstraintLoop(1, ph, cs)

----------------------------------------------------------------------------
(* The mission problem: parameterizing the phase info and adding the phases *)

\* The top-level mission targets the caller sets on aviary_inputs, the unit
\* each is kept in and the value it has when the inputs are loaded.
Targets == {"Mission.Design.RANGE", "Mission.Design.CRUISE_ALTITUDE"}

TargetUnits(t) == IF t = "Mission.Design.RANGE" THEN "km" ELSE "ft"

LoadedInputs ==
    [t \in Targets |-> IF t = "Mission.Design.RANGE" THEN "3500" ELSE "35000"]

TargetValues(t) ==
    IF t = "Mission.Design.RANGE" THEN {"3500", "5000"} ELSE {"35000", "31000"}

\* The phases of the mission, in order.
MissionPhases == <<"climb", "cruise">>

\* No problem: nothing is loaded.
NoProblem ==
    [aviary_inputs |-> LoadedInputs, phase_info |-> <<>>, traj |-> <<>>, steps |-> <<>>]

\* The options of a phase that follow the mission targets.
TargetOf(phase_name, key) ==
    CASE phase_name = "climb" /\ key = "final_altitude" -> "Mission.Design.CRUISE_ALTITUDE"
      [] phase_name = "cruise" /\ key = "initial_altitude" -> "Mission.Design.CRUISE_ALTITUDE"
      [] phase_name = "cruise" /\ key = "distance_upper" -> "Mission.Design.RANGE"
      [] OTHER -> None

\* phase_info_parameterization(phase_info, aviary_inputs): the phase info with
\* the options that follow a mission target set to the target's value.
phase_info_parameterization(phase_info, aviary_inputs) ==
    [i \in DOMAIN phase_info |->
        [phase_info[i] EXCEPT !.info.user_options =
            [k \in DOMAIN @ |->
                IF TargetOf(phase_info[i].name, k) # None
                THEN Pair(aviary_inputs[TargetOf(phase_info[i].name, k)],
                          TargetUnits(TargetOf(phase_info[i].name, k)))
                ELSE @[k]]]]

\* The loop of add_phases from phase i on: each phase info is turned into a
\* builder, which builds its phase; the phase is added to the trajectory.
RECURSIVE AddPhasesLoop(_, _, _, _)
AddPhasesLoop(i, p, reg, m) ==
    IF i > Len(p.phase_info) THEN [outcome |-> "ok", prob |-> p]
    ELSE LET r == phase_info_to_builder(p.phase_info[i].name, p.phase_info[i].info,
                                        reg, m)
             q == [p EXCEPT !.phase_info[i].info = r.info]
             b == build_phase(r.builder, "aviary_inputs", i)
         IN  IF r.outcome # "ok" THEN [outcome |-> r.outcome, prob |-> q]
             ELSE IF b.outcome # "ok" THEN [outcome |-> b.outcome, prob |-> q]
             ELSE AddPhasesLoop(i + 1,
                      [q EXCEPT !.traj = Append(@, [name |-> p.phase_info[i].name,
                                                    builder |-> r.builder,
                                                    phase |-> b.phase]),
                                !.steps = Append(@, p.phase_info[i].name)],
                      reg, m)

\* An add_phases that builds the phases from the phase info as it is and
\* applies the parameterization to the phase info afterwards.
add_phases_patching_after(p, phase_info_parameterization_given, reg, m) ==
    LET built == AddPhasesLoop(1, p, reg, m) IN
    IF phase_info_parameterization_given = None THEN built
    ELSE [built EXCEPT
             !.prob.phase_info =
                 phase_info_parameterization(@, p.aviary_inputs),
             !.prob.steps = Append(@, "parameterize")]

\* prob.add_phases(phase_info_parameterization=...): the exception raised
\* ("ok" when none) and the problem as the call leaves it.
add_phases(p, phase_info_parameterization_given, reg, m) ==
    IF phase_info_parameterization_given = None
    THEN AddPhasesLoop(1, p, reg, m)
    ELSE AddPhasesLoop(1,
             [p EXCEPT !.phase_info =
                           phase_info_parameterization(@, p.aviary_inputs),
                       !.steps = <<"parameterize">>],
             reg, m)

----------------------------------------------------------------------------
(* The state machine *)

NoGuess == [key |-> None, apply_initial_guess |-> None, desc |-> None]

\* The shape of last; each action fills in what its call is about.
Call(op) ==
    [op |-> op, cls |-> None, check_repeats |-> FALSE, outcome |-> "ok",
     ret |-> None, called |-> <<>>, again |-> FALSE, guess |-> NoGuess,
     applied |-> <<>>, not_applied |-> <<>>, made_default |-> FALSE, arg |-> None]

MetaSize(m) == Len(m["TA"]) + Len(m["TB"])

EmptyMeta == [o \in MetaOwners |-> <<>>]

\* The guess registries once the classes are defined: TA (and so TN) supports
\* g1, TB supports g1 and g2.
LoadedMeta ==
    [o \in MetaOwners |->
        IF o = "TA"
        THEN <<[key |-> "g1", apply_initial_guess |-> "apply_a", desc |-> "first"]>>
        ELSE <<[key |-> "g1", apply_initial_guess |-> "apply_a", desc |-> "first"],
               [key |-> "g2", apply_initial_guess |-> "apply_a", desc |-> "first"]>>]

InitWith(regs, metas, infos) ==
    /\ registry \in regs
    /\ meta \in metas
    /\ d \in [name : Names, info : infos]
    /\ held = d
    /\ builder = NoBuilder
    /\ trip = 0
    /\ last = Call("none")
    /\ phase = NoPhase
    /\ constraints = <<>>
    /\ calls = NoCalls
    /\ prob = NoProblem

\* register(t, check_repeats=cr) called directly.
RegisterCall ==
    \E t \in Types, cr \in BOOLEAN :
        LET r == register(t, cr, registry) IN
        /\ Len(r.registry) <= MaxReg
        /\ registry' = r.registry
        /\ last' = [Call("register") EXCEPT !.cls = t, !.check_repeats = cr,
                                            !.outcome = r.outcome, !.ret = r.ret]
        /\ UNCHANGED <<meta, d, held, builder, trip, phase, constraints, calls, prob>>

\* "@register" above a class definition: register(t), check_repeats defaulted.
RegisterDecorator ==
    \E t \in Types :
        LET r == register(t, TRUE, registry) IN
        /\ Len(r.registry) <= MaxReg
        /\ registry' = r.registry
        /\ last' = [Call("@register") EXCEPT !.cls = t, !.check_repeats = TRUE,
                                             !.outcome = r.outcome, !.ret = r.ret]
        /\ UNCHANGED <<meta, d, held, builder, trip, phase, constraints, calls, prob>>

\* "@register(check_repeats=cr)" above a class definition: register() returns
\* the decorator, which is then applied to the class.
RegisterDecoratorFactory ==
    \E t \in Types, cr \in BOOLEAN :
        LET made == register(None, cr, registry)
            r == decorator(t, cr, made.registry)
        IN
        /\ made.ret = "decorator"
        /\ Len(r.registry) <= MaxReg
        /\ registry' = r.registry
        /\ last' = [Call("@register()") EXCEPT !.cls = t, !.check_repeats = cr,
                                               !.outcome = r.outcome, !.ret = r.ret]
        /\ UNCHANGED <<meta, d, held, builder, trip, phase, constraints, calls, prob>>

\* One more conversion in a row when a builder was made from a dict the
\* previous conversion produced (or from d).
TripAfterBuild(outcome, b) ==
    IF outcome = "ok" /\ IsNotNone(b) /\ trip % 2 = 0 THEN trip + 1 ELSE trip

\* builder = phase_info_to_builder(name, phase_info) on the pair the caller holds.
PhaseInfoToBuilder ==
    LET r == phase_info_to_builder(held.name, held.info, registry, meta) IN
    /\ held' = [held EXCEPT !.info = r.info]
    /\ builder' = IF r.outcome = "ok" THEN r.builder ELSE builder
    /\ trip' = TripAfterBuild(r.outcome, r.builder)
    /\ last' = [Call("phase_info_to_builder") EXCEPT
                    !.outcome = r.outcome, !.ret = r.builder.cls, !.called = r.called,
                    !.again = (last.op = "phase_info_to_builder")]
    /\ UNCHANGED <<registry, meta, d, phase, constraints, calls, prob>>

\* builder = t.from_phase_info(name, phase_info) on the pair the caller holds.
FromPhaseInfo ==
    \E t \in Types :
        LET r == TypeFromPhaseInfo(t, held.name, held.info, meta) IN
        /\ held' = [held EXCEPT !.info = r.info]
        /\ builder' = IF r.outcome = "ok" THEN r.builder ELSE builder
        /\ trip' = TripAfterBuild(r.outcome, r.builder)
        /\ last' = [Call("from_phase_info") EXCEPT
                        !.cls = t, !.outcome = r.outcome, !.ret = r.builder.cls]
        /\ UNCHANGED <<registry, meta, d, phase, constraints, calls, prob>>

\* name, phase_info = builder.to_phase_info(): the caller goes on with the pair returned.
ToPhaseInfo ==
    /\ IsNotNone(builder)
    /\ trip < 2 * MaxTrips
    /\ LET r == to_phase_info(builder) IN
        /\ held' = r
        /\ last' = [Call("to_phase_info") EXCEPT !.cls = builder.cls]
    /\ trip' = IF trip % 2 = 1 THEN trip + 1 ELSE trip
    /\ UNCHANGED <<registry, meta, d, builder, phase, constraints, calls, prob>>

\* t._add_initial_guess_meta_data(initial_guess, desc)
AddInitialGuessMetaData ==
    \E t \in Types, g \in InitialGuesses :
        LET r == _add_initial_guess_meta_data(t, g, meta) IN
        /\ MetaSize(r.meta) <= (IF MetaSize(meta) > MaxMeta THEN MetaSize(meta) ELSE MaxMeta)
        /\ meta' = r.meta
        /\ last' = [Call("_add_initial_guess_meta_data") EXCEPT
                        !.cls = t, !.guess = g, !.outcome = r.outcome]
        /\ UNCHANGED <<registry, d, held, builder, trip, phase, constraints, calls, prob>>

\* The caller replaces the guesses of the builder it holds
\* (builder.initial_guesses is a public attribute).
SetInitialGuesses ==
    \E g \in GuessDicts :
        /\ IsNotNone(builder)
        /\ g # builder.initial_guesses
        /\ builder' = [builder EXCEPT !.initial_guesses = AviaryValues(g)]
        /\ last' = Call("set initial_guesses")
        /\ UNCHANGED <<registry, meta, d, held, trip, phase, constraints, calls, prob>>

\* builder.validate_initial_guesses()
ValidateInitialGuesses ==
    /\ IsNotNone(builder)
    /\ last' = [Call("validate_initial_guesses") EXCEPT
                    !.cls = builder.cls,
                    !.outcome = validate_initial_guesses(builder, meta)]
    /\ UNCHANGED <<registry, meta, d, held, builder, trip, phase, constraints, calls, prob>>

\* builder.apply_initial_guesses(prob, traj_name, phase)
ApplyInitialGuesses ==
    /\ IsNotNone(builder)
    /\ LET r == apply_initial_guesses(builder, meta) IN
        last' = [Call("apply_initial_guesses") EXCEPT
                    !.cls = builder.cls, !.applied = r.applied,
                    !.not_applied = r.not_applied]
    /\ UNCHANGED <<registry, meta, d, held, builder, trip, phase, constraints, calls, prob>>

\* builder = T(name, user_options=..., initial_guesses=..., ode_class=...,
\* transcription=..., is_analytic_phase=..., num_nodes=...) with the options
\* and guesses of the phase info held.
NewBuilder ==
    \E t \in BuilderTypes, oc \in OdeClasses, tr \in Transcriptions,
       an \in BOOLEAN, nn \in NumNodes :
        LET kw == [subsystem_options |-> {},
                   user_options |-> WrapBareOptions(held.info.user_options),
                   initial_guesses |-> AviaryValues(held.info.initial_guesses),
                   external_subsystems |-> <<>>,
                   core_subsystems |-> <<>>,
                   meta_data |-> None,
                   transcription |-> tr,
                   ode_class |-> oc,
                   is_analytic_phase |-> an,
                   num_nodes |-> nn]
            r == __init__(t, held.name, kw, meta)
        IN
        /\ builder' = IF r.outcome = "ok" THEN r.builder ELSE builder
        /\ last' = [Call("__init__") EXCEPT
                        !.cls = t, !.outcome = r.outcome, !.ret = r.builder.cls]
        /\ UNCHANGED <<registry, meta, d, held, trip, phase, constraints, calls, prob>>

\* phase = builder.build_phase(aviary_options)
BuildPhase ==
    \E ao \in AviaryOptions :
        LET r == build_phase(builder, ao, phase.id + 1) IN
        /\ IsNotNone(builder)
        /\ phase.id < MaxPhases
        /\ builder' = r.self
        /\ phase' = IF r.outcome = "ok" THEN r.phase ELSE phase
        /\ last' = [Call("build_phase") EXCEPT
                        !.cls = builder.cls, !.outcome = r.outcome,
                        !.made_default = r.made_default, !.arg = ao]
        /\ UNCHANGED <<registry, meta, d, held, trip, constraints, calls, prob>>

\* The units argument the caller gives add_distance_state and
\* add_altitude_state: the default, or another unit.
DistanceUnits == {"NM", "km"}
AltitudeUnits == {"ft", "m"}

\* The targets argument of set_time_options: the default [], or a variable.
TimeTargets == {"[]", "t_curr"}

TotalCalls ==
    calls["add_velocity_state"] + calls["add_mass_state"]
        + calls["add_distance_state"] + calls["add_flight_path_angle_state"]
        + calls["add_altitude_state"] + calls["add_altitude_constraint"]

\* builder.add_velocity_state(builder.user_options) and the like, as a subtype's
\* build_phase calls them on the phase it keeps as self.phase.
AddVelocityState ==
    LET r == add_velocity_state(phase, builder.user_options) IN
    /\ TotalCalls < MaxCalls
    /\ phase' = r.phase
    /\ calls' = [calls EXCEPT !["add_velocity_state"] = @ + 1]
    /\ last' = [Call("add_velocity_state") EXCEPT !.cls = builder.cls, !.outcome = r.outcome]
    /\ UNCHANGED <<registry, meta, d, held, builder, trip, constraints, prob>>

AddMassState ==
    LET r == add_mass_state(phase, builder.user_options) IN
    /\ TotalCalls < MaxCalls
    /\ phase' = r.phase
    /\ calls' = [calls EXCEPT !["add_mass_state"] = @ + 1]
    /\ last' = [Call("add_mass_state") EXCEPT !.cls = builder.cls, !.outcome = r.outcome]
    /\ UNCHANGED <<registry, meta, d, held, builder, trip, constraints, prob>>

AddDistanceState ==
    \E units \in DistanceUnits :
        LET r == add_distance_state(phase, builder.user_options, units) IN
        /\ TotalCalls < MaxCalls
        /\ phase' = r.phase
        /\ calls' = [calls EXCEPT !["add_distance_state"] = @ + 1]
        /\ last' = [Call("add_distance_state") EXCEPT
                        !.cls = builder.cls, !.outcome = r.outcome, !.arg = units]
        /\ UNCHANGED <<registry, meta, d, held, builder, trip, constraints, prob>>

AddFlightPathAngleState ==
    LET r == add_flight_path_angle_state(phase, builder.user_options) IN
    /\ TotalCalls < MaxCalls
    /\ phase' = r.phase
    /\ calls' = [calls EXCEPT !["add_flight_path_angle_state"] = @ + 1]
    /\ last' = [Call("add_flight_path_angle_state") EXCEPT !.cls = builder.cls, !.outcome = r.outcome]
    /\ UNCHANGED <<registry, meta, d, held, builder, trip, constraints, prob>>

AddAltitudeState ==
    \E units \in AltitudeUnits :
        LET r == add_altitude_state(phase, builder.user_options, units) IN
        /\ TotalCalls < MaxCalls
        /\ phase' = r.phase
        /\ calls' = [calls EXCEPT !["add_altitude_state"] = @ + 1]
        /\ last' = [Call("add_altitude_state") EXCEPT
                        !.cls = builder.cls, !.outcome = r.outcome, !.arg = units]
        /\ UNCHANGED <<registry, meta, d, held, builder, trip, constraints, prob>>

AddAltitudeConstraint ==
    LET r == add_altitude_constraint(phase, builder.user_options) IN
    /\ TotalCalls < MaxCalls
    /\ phase' = r.phase
    /\ calls' = [calls EXCEPT !["add_altitude_constraint"] = @ + 1]
    /\ last' = [Call("add_altitude_constraint") EXCEPT !.cls = builder.cls, !.outcome = r.outcome]
    /\ UNCHANGED <<registry, meta, d, held, builder, trip, constraints, prob>>

\* builder.set_time_options(builder.user_options, targets)
SetTimeOptions ==
    \E targets \in TimeTargets :
        LET r == set_time_options(phase, builder.user_options, targets) IN
        /\ phase' = r.phase
        /\ last' = [Call("set_time_options") EXCEPT
                        !.cls = builder.cls, !.outcome = r.outcome, !.arg = targets]
        /\ UNCHANGED <<registry, meta, d, held, builder, trip, constraints, calls, prob>>

\* builder._add_user_defined_constraints(phase, constraints) on the mapping the
\* caller holds.
AddUserDefinedConstraints ==
    LET r == _add_user_defined_constraints(phase, constraints) IN
    /\ phase' = r.phase
    /\ constraints' = r.constraints
    /\ last' = [Call("_add_user_defined_constraints") EXCEPT
                    !.cls = builder.cls, !.outcome = r.outcome,
                    !.again = (last.op = "_add_user_defined_constraints")]
    /\ UNCHANGED <<registry, meta, d, held, builder, trip, calls, prob>>

\* prob.aviary_inputs.set_val(target, value, units)
SetVal ==
    \E t \in Targets : \E v \in TargetValues(t) :
        /\ prob # NoProblem
        /\ prob.aviary_inputs[t] # v
        /\ prob' = [prob EXCEPT !.aviary_inputs[t] = v]
        /\ last' = [Call("set_val") EXCEPT !.arg = t]
        /\ UNCHANGED <<registry, meta, d, held, builder, trip, phase, constraints, calls>>

\* prob.add_phases(phase_info_parameterization=f), once on a problem
AddPhases ==
    \E f \in {None, "phase_info_parameterization"} :
        LET r == add_phases(prob, f, registry, meta) IN
        /\ prob # NoProblem
        /\ prob.steps = <<>>
        /\ prob.traj = <<>>
        /\ last.op # "add_phases"
        /\ prob' = r.prob
        /\ last' = [Call("add_phases") EXCEPT !.outcome = r.outcome, !.arg = f]
        /\ UNCHANGED <<registry, meta, d, held, builder, trip, phase, constraints, calls>>

----------------------------------------------------------------------------
(* Specifications *)

\* The registry and the dispatch: the classes are defined, none is registered yet.
DispatchInfos ==
    PhaseInfosOver({[o \in {"o1"} |-> Bare("v1")]}, GuessDicts)

Init == InitWith({<<>>}, {LoadedMeta}, DispatchInfos)

Next ==
    \/ RegisterCall
    \/ RegisterDecorator
    \/ RegisterDecoratorFactory
    \/ PhaseInfoToBuilder

Spec == Init /\ [][Next]_vars

\* The guess registries and the guesses of a builder: no guess is registered yet.
GuessInfos ==
    {PhaseInfoDict(keys, {"core_aerodynamics"}, [o \in {"o1"} |-> Bare("v1")],
                   ig, <<"ext">>) :
        keys \in {TopKeys, TopKeys \ {"external_subsystems"}}, ig \in GuessDicts}

InitGuess == InitWith({<<>>}, {EmptyMeta}, GuessInfos)

NextGuess ==
    \/ AddInitialGuessMetaData
    \/ FromPhaseInfo
    \/ SetInitialGuesses
    \/ ValidateInitialGuesses
    \/ ApplyInitialGuesses

SpecGuess == InitGuess /\ [][NextGuess]_vars

\* The conversions: the classes are defined and registered.
ConversionInfos == PhaseInfosOver(UserOptionDicts, GuessDicts)

InitConversion == InitWith({<<"TN", "TB", "TA">>}, {LoadedMeta}, ConversionInfos)

NextConversion ==
    \/ PhaseInfoToBuilder
    \/ FromPhaseInfo
    \/ ToPhaseInfo

SpecConversion == InitConversion /\ [][NextConversion]_vars

\* Building phases: the classes are defined and registered, no builder is made yet.
TranscriptionOptions ==
    [k \in {"num_segments", "order"} |-> IF k = "order" THEN Bare("3") ELSE Bare("2")]

BuildInfos ==
    {PhaseInfoDict(TopKeys \ {"external_subsystems"}, {"core_aerodynamics"},
                   TranscriptionOptions, EmptyDict, <<>>),
     PhaseInfoDict(TopKeys \ {"external_subsystems"}, {"core_aerodynamics"},
                   TranscriptionOptions, [k \in {"g2"} |-> GuessValue(k)], <<>>),
     PhaseInfoDict(TopKeys \ {"external_subsystems"}, {"core_aerodynamics"},
                   EmptyDict, EmptyDict, <<>>)}

InitBuild == InitWith({<<"TA", "TB">>}, {LoadedMeta}, BuildInfos)

NextBuild ==
    \/ NewBuilder
    \/ FromPhaseInfo
    \/ BuildPhase

SpecBuild == InitBuild /\ [][NextBuild]_vars

\* The keyword arguments of the ODE: builders of every type, made from phase
\* infos with and without external subsystems, build their phases.
OdeKwargsInfos ==
    {PhaseInfoDict(keys, {"core_aerodynamics"}, uo, EmptyDict, <<"ext">>) :
        keys \in {TopKeys, TopKeys \ {"external_subsystems"},
                  TopKeys \ {"subsystem_options"}},
        uo \in {TranscriptionOptions, EmptyDict}}

InitOdeKwargs == InitWith({<<"TN", "TB", "TA">>}, {LoadedMeta}, OdeKwargsInfos)

NextOdeKwargs ==
    \/ FromPhaseInfo
    \/ BuildPhase

SpecOdeKwargs == InitOdeKwargs /\ [][NextOdeKwargs]_vars

\* The phase under construction: a builder of type TA has been made from a
\* phase info and has built its phase; the helpers have not been called yet.
Quantities == {"velocity", "mass", "distance", "angle", "alt"}

QuantityUnits(prefix) ==
    CASE prefix = "velocity" -> "kn"
      [] prefix = "mass" -> "lbm"
      [] prefix = "distance" -> "NM"
      [] prefix = "angle" -> "rad"
      [] prefix = "alt" -> "ft"

PhaseOptionKeys ==
    {"num_segments", "order", "final_altitude", "alt_constraint_ref"}
        \cup UNION {StateOptionKeys(q) : q \in Quantities}

\* The user options of a phase info with every option the helpers read; fix
\* is the fix_initial option, None when the phase info does not give it.
PhaseOptions(fix) ==
    [k \in PhaseOptionKeys \cup (IF fix = None THEN {} ELSE {"fix_initial"}) |->
        IF k = "fix_initial" THEN Bare(fix)
        ELSE IF k \in {"num_segments", "order"} THEN Bare("2")
        ELSE IF k \in {"final_altitude", "alt_constraint_ref"} THEN Pair("1", "ft")
        ELSE Pair("1", QuantityUnits(CHOOSE q \in Quantities : k \in StateOptionKeys(q)))]

PhaseInfos ==
    {PhaseInfoDict(TopKeys \ {"external_subsystems"}, {"core_aerodynamics"},
                   PhaseOptions(fix), EmptyDict, <<>>) : fix \in {"True", "False", None}}

InitOnPhase(infos, mappings) ==
    /\ registry = <<"TA", "TB">>
    /\ meta = LoadedMeta
    /\ d \in [name : Names, info : infos]
    /\ LET r == from_phase_info("TA", d.name, d.info, meta) IN
        /\ held = [name |-> d.name, info |-> r.info]
        /\ builder = r.builder
        /\ phase = build_phase(r.builder, None, 1).phase
    /\ trip = 1
    /\ last = Call("none")
    /\ constraints \in mappings
    /\ calls = NoCalls
    /\ prob = NoProblem

InitPhase == InitOnPhase(PhaseInfos, {<<>>})

NextPhase ==
    \/ AddVelocityState
    \/ AddMassState
    \/ AddDistanceState
    \/ AddFlightPathAngleState
    \/ AddAltitudeState
    \/ AddAltitudeConstraint

SpecPhase == InitPhase /\ [][NextPhase]_vars

\* The units of the options: a phase info gives every option the helpers and
\* set_time_options read, each in the unit the helpers declare by default
\* or each in another unit of the same quantity.
OtherUnits(units) ==
    CASE units = "kn" -> "m/s"
      [] units = "lbm" -> "kg"
      [] units = "NM" -> "km"
      [] units = "rad" -> "deg"
      [] units = "ft" -> "m"
      [] units = "s" -> "min"

UnitsOptions(fix, other) ==
    LET native == PhaseOptions(fix) IN
    [k \in DOMAIN native \cup {"duration_bounds", "duration_ref"} |->
        IF k \in {"duration_bounds", "duration_ref"}
        THEN Pair("60", IF other THEN OtherUnits("s") ELSE "s")
        ELSE IF native[k].tup /\ other
        THEN Pair(native[k].v, OtherUnits(native[k].u))
        ELSE native[k]]

UnitsInfos ==
    {PhaseInfoDict(TopKeys \ {"external_subsystems"}, {"core_aerodynamics"},
                   UnitsOptions(fix, other), EmptyDict, <<>>) :
        fix \in {"True", "False"}, other \in BOOLEAN}

InitUnits == InitOnPhase(UnitsInfos, {<<>>})

NextUnits ==
    \/ SetTimeOptions
    \/ AddVelocityState
    \/ AddMassState
    \/ AddDistanceState
    \/ AddFlightPathAngleState
    \/ AddAltitudeState
    \/ AddAltitudeConstraint

SpecUnits == InitUnits /\ [][NextUnits]_vars

\* The mission: the problem has loaded its inputs and a phase info of two
\* phases, whose options are bare or given with their unit and whose cruise
\* phase gives no guess, a guess a builder supports or one it does not.
MissionOptions(phase_name, bare) ==
    [k \in {"num_segments", "order"}
            \cup (IF phase_name = "climb" THEN {"final_altitude"}
                  ELSE {"initial_altitude", "distance_upper"}) |->
        CASE k = "num_segments" -> IF bare THEN Bare("2") ELSE Pair("2", Unitless)
          [] k = "order" -> Bare("3")
          [] k = "distance_upper" -> Pair("1900", "NM")
          [] OTHER -> Pair("32000", "ft")]

MissionPhaseInfos ==
    {[i \in 1..Len(MissionPhases) |->
        [name |-> MissionPhases[i],
         info |-> PhaseInfoDict(TopKeys \ {"external_subsystems"}, {"core_aerodynamics"},
                                MissionOptions(MissionPhases[i], bare),
                                IF MissionPhases[i] = "cruise" THEN ig ELSE EmptyDict,
                                <<>>)]] :
        bare \in BOOLEAN, ig \in GuessDicts}

InitMission ==
    /\ registry \in {<<"TA", "TB">>, <<"TB", "TA">>}
    /\ meta = LoadedMeta
    /\ d \in [name : Names, info : {PhaseInfoDict({}, {}, EmptyDict, EmptyDict, <<>>)}]
    /\ held = d
    /\ builder = NoBuilder
    /\ trip = 0
    /\ last = Call("none")
    /\ phase = NoPhase
    /\ constraints = <<>>
    /\ calls = NoCalls
    /\ prob \in [aviary_inputs : {LoadedInputs}, phase_info : MissionPhaseInfos,
                  traj : {<<>>}, steps : {<<>>}]

NextMission ==
    \/ SetVal
    \/ AddPhases

SpecMission == InitMission /\ [][NextMission]_vars

\* The user-defined constraints: the caller holds a constraints mapping.
ConstraintTypes == {"boundary", "path", "other"}
ConstraintNames == <<"c1", "c2", "c3">>

\* The kwargs of one constraint: a type, with or without a target, or no
\* 'type' key at all.
ConstraintKwargs ==
    {[k \in {"type", "equals"} \cup (IF target = None THEN {} ELSE {"target"}) |->
         CASE k = "type" -> type
           [] k = "equals" -> "0"
           [] k = "target" -> target] :
        type \in ConstraintTypes, target \in {None, "altitude"}}
      \cup {[k \in {"equals"} |-> "0"]}

ConstraintMappings ==
    UNION {{[i \in 1..n |-> [name |-> ConstraintNames[i], kwargs |-> f[i]]] :
                f \in [1..n -> ConstraintKwargs]} : n \in 0..MaxConstraints}

InitConstraints ==
    InitOnPhase({PhaseInfoDict(TopKeys \ {"external_subsystems"},
                               {"core_aerodynamics"}, PhaseOptions("False"),
                               EmptyDict, <<>>)},
                ConstraintMappings)

NextConstraints ==
    \/ AddUserDefinedConstraints
    \/ AddAltitudeConstraint

SpecConstraints == InitConstraints /\ [][NextConstraints]_vars

----------------------------------------------------------------------------
(* Claims about the registry and the dispatch *)

RegisterOps == {"register", "@register", "@register()"}

\* What the i-th registered type's from_phase_info makes of the pair held.
Attempt(i) == TypeFromPhaseInfo(registry[i], held.name, held.info, meta)

ReturnsNone(i) == Attempt(i).outcome = "ok" /\ Attempt(i).builder = NoBuilder
ReturnsBuilder(i) == Attempt(i).outcome = "ok" /\ Attempt(i).builder # NoBuilder
Raises(i) == Attempt(i).outcome # "ok"

Positions == 1..Len(registry)

\* A phase info with the three keys the data model requires.
ValidPhaseInfo(info) ==
    {"subsystem_options", "user_options", "initial_guesses"} \subseteq info.keys

Min(S) == CHOOSE x \in S : \A y \in S : x <= y

Count(s, x) == Cardinality({i \in 1..Len(s) : s[i] = x})

IsPrefix(s, t) == Len(s) <= Len(t) /\ SubSeq(t, 1, Len(s)) = s

\* C3 as stated: phase_info_to_builder calls the registered types in
\* registration order, returns the first result that is not None without
\* calling any later type, and raises ValueError, returning no builder,
\* whenever no registered type returns a result that is not None (stated for
\* the phase infos that have all their required keys).
C3_AsStated ==
    (last.op = "phase_info_to_builder" /\ ValidPhaseInfo(held.info)) =>
        /\ IsPrefix(last.called, registry)
        /\ IF \E i \in Positions : ReturnsBuilder(i)
           THEN LET first == Min({i \in Positions : ReturnsBuilder(i)}) IN
                /\ last.outcome = "ok"
                /\ last.ret = registry[first]
                /\ last.called = SubSeq(registry, 1, first)
           ELSE /\ last.outcome = "ValueError"
                /\ last.ret = None

\* C3 amended: phase_info_to_builder calls the registered types in
\* registration order for as long as they return None.  The first result that
\* is not None is returned and no later type is called; if every registered
\* type returns None (or the registry is empty) ValueError is raised and no
\* builder is returned; an exception from a type's from_phase_info ends the
\* dispatch at that type with that exception.
C3_FirstResultNotNone ==
    last.op = "phase_info_to_builder" =>
        /\ IsPrefix(last.called, registry)
        /\ \A i \in Positions :
              (i < Len(last.called)) => ReturnsNone(i)
        /\ IF \E i \in Positions : ~ReturnsNone(i)
           THEN LET first == Min({i \in Positions : ~ReturnsNone(i)}) IN
                /\ last.called = SubSeq(registry, 1, first)
                /\ last.outcome = Attempt(first).outcome
                /\ last.ret = Attempt(first).builder.cls
                /\ ReturnsBuilder(first) => builder = Attempt(first).builder
           ELSE /\ last.called = registry
                /\ last.outcome = "ValueError"
                /\ last.ret = None

\* A dispatch in which the first type returned None, the second a builder and
\* a third, registered after it, was not called.
C3_Witness ==
    /\ last.op = "phase_info_to_builder"
    /\ last.outcome = "ok"
    /\ Len(last.called) = 2
    /\ Len(registry) = 3
    /\ ReturnsNone(1)
    /\ builder.cls = registry[2]

\* C4 as stated: a type whose from_phase_info raises is one more failed
\* attempt; the later types are tried, and ValueError is raised only when every
\* registered type fails (stated for the phase infos that have all their
\* required keys).
C4_AsStated ==
    (last.op = "phase_info_to_builder" /\ ValidPhaseInfo(held.info)) =>
        IF \E i \in Positions : ReturnsBuilder(i)
        THEN /\ last.outcome = "ok"
             /\ last.ret = registry[Min({i \in Positions : ReturnsBuilder(i)})]
        ELSE last.outcome = "ValueError"

\* C4 amended: when a type's from_phase_info raises, phase_info_to_builder does
\* not catch it: the call ends with that exception, returns no builder, calls
\* no later-registered type and does not raise the unsupported-phase-info
\* error; only a None result counts as a failed attempt.
C4_ExceptionPropagates ==
    last.op = "phase_info_to_builder" =>
        \A i \in Positions :
            (Raises(i) /\ \A j \in Positions : j < i => ReturnsNone(j)) =>
                /\ last.outcome = Attempt(i).outcome
                /\ last.outcome # "ValueError"
                /\ last.ret = None
                /\ last.called = SubSeq(registry, 1, i)

\* A dispatch that ended with the TypeError of its first type although a type
\* registered after it takes the phase info.
C4_Witness ==
    /\ last.op = "phase_info_to_builder"
    /\ last.outcome = "TypeError"
    /\ Len(last.called) = 1
    /\ \E i \in Positions : i > 1 /\ ReturnsBuilder(i)

\* C5: a call of phase_info_to_builder that returns a builder returns one of
\* the first registered type whose from_phase_info succeeds on the phase info,
\* and a second call on the same dict, which the first call has normalized in
\* place, with the registry as it was, returns a builder of the same type.
C5_DispatchDeterminism ==
    [][(last'.op = "phase_info_to_builder" /\ last'.outcome = "ok") =>
          /\ \E i \in 1..Len(registry') :
                /\ last'.ret = registry'[i]
                /\ builder'.cls = registry'[i]
                /\ TypeFromPhaseInfo(registry'[i], held'.name, held'.info, meta').builder
                       = builder'
                /\ \A j \in 1..(i - 1) :
                       TypeFromPhaseInfo(registry'[j], held'.name, held'.info, meta').builder
                           = NoBuilder
          /\ (last.op = "phase_info_to_builder" /\ last.outcome = "ok"
                 /\ registry' = registry)
                => last'.ret = last.ret]_vars

\* A second call in a row has returned a builder, from a dict whose bare
\* option the first call wrapped, past a type that returned None.
C5_Witness ==
    /\ last.op = "phase_info_to_builder"
    /\ last.again
    /\ last.outcome = "ok"
    /\ Len(last.called) > 1
    /\ held.info # d.info

\* C6: registering a type that is in the registry with check_repeats=True
\* raises ValueError and leaves the registry as it was; with
\* check_repeats=False it does not raise and the registry holds the type once
\* more than before.
C6_RegistrationGuard ==
    [][(last'.op \in RegisterOps /\ last'.cls \in Range(registry)) =>
          IF last'.check_repeats
          THEN /\ last'.outcome = "ValueError"
               /\ registry' = registry
          ELSE /\ last'.outcome = "ok"
               /\ registry' = Append(registry, last'.cls)
               /\ Count(registry', last'.cls) = Count(registry, last'.cls) + 1
               /\ Count(registry', last'.cls) >= 2]_vars

\* The registry holds a type twice and a checked registration of it has failed.
C6_Witness ==
    /\ last.op \in RegisterOps
    /\ last.outcome = "ValueError"
    /\ Count(registry, last.cls) = 2

\* C7: the registry is append-only.  Every step keeps the entries there were
\* at their positions; a register that succeeds, in any of its three forms,
\* appends the one type it was given at the end and returns that type; a
\* register that fails and phase_info_to_builder leave the registry as it was.
C7_AppendOnly ==
    [][/\ IsPrefix(registry, registry')
       /\ Len(registry') <= Len(registry) + 1
       /\ (last'.op \in RegisterOps /\ last'.outcome = "ok") =>
              /\ registry' = Append(registry, last'.cls)
              /\ last'.ret = last'.cls
       /\ (last'.op \in RegisterOps /\ last'.outcome # "ok") => registry' = registry
       /\ last'.op = "phase_info_to_builder" => registry' = registry]_vars

\* A registry filled to the bound by register calls, then read to its end by
\* a dispatch in which every type returned None or the last one answered.
C7_Witness ==
    /\ Len(registry) = MaxReg
    /\ last.op = "phase_info_to_builder"
    /\ last.called = registry

----------------------------------------------------------------------------
(* Claims about the guess registries *)

Supported(cls) == SeqKeys(meta[MetaOwner(cls)])

\* The guesses of builder b that the class of b does not support.
Unsupported(b) == {k \in DOMAIN b.initial_guesses : k \notin Supported(b.cls)}

\* C8: validate_initial_guesses raises TypeError exactly when a key of the
\* builder's initial_guesses is not in the guess registry of its class, so
\* never with no guesses, also after the caller has replaced the guesses; the
\* call changes neither the builder nor the registry.  The constructor runs the
\* same validation on the guesses it is given: it raises TypeError and returns
\* no builder exactly when one of them is unsupported, and a builder it
\* returns holds no unsupported guess.
C8_GuessValidation ==
    [][/\ last'.op = "validate_initial_guesses" =>
              /\ (last'.outcome = "TypeError") <=> (Unsupported(builder) # {})
              /\ (last'.outcome = "ok") <=> (Unsupported(builder) = {})
              /\ builder' = builder
              /\ meta' = meta
       /\ (last'.op = "from_phase_info"
              /\ ~(last'.cls = "TN" /\ ~Recognizes(held.info))) =>
              LET given == IF "initial_guesses" \in held.info.keys
                           THEN DOMAIN held.info.initial_guesses ELSE {}
                  bad == {k \in given : k \notin Supported(last'.cls)}
              IN  /\ (last'.outcome = "TypeError") <=> (bad # {})
                  /\ (last'.outcome = "ok") <=> (bad = {})
                  /\ last'.outcome = "TypeError" =>
                         (last'.ret = None /\ builder' = builder)
                  /\ last'.outcome = "ok" =>
                         /\ builder'.cls = last'.cls
                         /\ DOMAIN builder'.initial_guesses = given
                         /\ \A k \in given : k \in SeqKeys(meta'[MetaOwner(last'.cls)])
                  /\ meta' = meta]_vars

\* A validation that raised although one of the two guesses the caller had
\* put in the builder is supported.
C8_Witness ==
    /\ last.op = "validate_initial_guesses"
    /\ last.outcome = "TypeError"
    /\ \E k \in DOMAIN builder.initial_guesses : k \in Supported(builder.cls)
    /\ Unsupported(builder) # {}

\* A constructor that raised on an unsupported guess.
C8_WitnessConstructor ==
    /\ last.op = "from_phase_info"
    /\ last.outcome = "TypeError"
    /\ last.ret = None

\* C9 as stated: registering a guess key that the class's guess registry
\* already has raises ValueError and leaves the registry entry as it was.
C9_AsStated ==
    [][(last'.op = "_add_initial_guess_meta_data"
           /\ last'.guess.key \in Supported(last'.cls)) =>
          /\ last'.outcome = "ValueError"
          /\ meta' = meta]_vars

\* C10 as stated: apply_initial_guesses returns exactly the keys that are in
\* the builder's initial_guesses and not in the guess registry of its class.
C10_AsStated ==
    last.op = "apply_initial_guesses" =>
        /\ Range(last.not_applied) = Unsupported(builder)
        /\ Len(last.not_applied) = Cardinality(Unsupported(builder))

\* The registry position of guess key k in the class of the builder held.
MetaIndex(k) ==
    CHOOSE i \in 1..Len(meta[MetaOwner(builder.cls)]) :
        meta[MetaOwner(builder.cls)][i].key = k

\* C10 amended: apply_initial_guesses returns exactly the keys of the guess
\* registry of the builder's class that have no entry in the builder's
\* initial_guesses, each once, in registration order; so it returns an empty
\* list exactly when every registry key has a guess, whatever unsupported keys
\* initial_guesses holds.
C10_ReturnsRegistryKeysWithoutGuess ==
    last.op = "apply_initial_guesses" =>
        /\ Range(last.not_applied) =
               Supported(builder.cls) \ DOMAIN builder.initial_guesses
        /\ Len(last.not_applied) = Cardinality(Range(last.not_applied))
        /\ \A i, j \in 1..Len(last.not_applied) :
               i < j => MetaIndex(last.not_applied[i]) < MetaIndex(last.not_applied[j])
        /\ (last.not_applied = <<>>) <=>
               (Supported(builder.cls) \subseteq DOMAIN builder.initial_guesses)

\* An apply that returned a registry key for which the builder has no guess,
\* while the one guess the builder has is unsupported and is not returned.
C10_Witness ==
    /\ last.op = "apply_initial_guesses"
    /\ Len(last.not_applied) = 1
    /\ Unsupported(builder) # {}
    /\ Range(last.not_applied) \cap Unsupported(builder) = {}

\* The registry positions of the class of builder b whose key has a guess in b.
GuessedPositions(b) ==
    {i \in 1..Len(meta[MetaOwner(b.cls)]) :
        meta[MetaOwner(b.cls)][i].key \in DOMAIN b.initial_guesses}

\* C11: apply_initial_guesses goes through the guess registry of the builder's
\* class in registration order and, for each registry key that has an entry in
\* initial_guesses, calls the apply function registered under that key once,
\* with the builder's phase name and the value and unit stored for the key; it
\* calls no apply function for a key without an entry, and it changes neither
\* the builder's initial_guesses nor the registry.
C11_ApplyInRegistrationOrder ==
    [][last'.op = "apply_initial_guesses" =>
          LET md == meta[MetaOwner(builder.cls)]
              idx == GuessedPositions(builder)
          IN  /\ Len(last'.applied) = Cardinality(idx)
              /\ \A i \in idx :
                    last'.applied[Cardinality({j \in idx : j <= i})] =
                        [fn |-> md[i].apply_initial_guess,
                         key |-> md[i].key,
                         phase_name |-> builder.name,
                         val |-> builder.initial_guesses[md[i].key].val,
                         units |-> builder.initial_guesses[md[i].key].units]
              /\ \A n \in 1..Len(last'.applied) :
                    last'.applied[n].key \in DOMAIN builder.initial_guesses
              /\ builder' = builder
              /\ meta' = meta]_vars

\* An apply that called two apply functions, the one of g2 first because g2
\* was registered first.
C11_Witness ==
    /\ last.op = "apply_initial_guesses"
    /\ Len(last.applied) = 2
    /\ last.applied[1].key = "g2"
    /\ last.applied[2].key = "g1"
    /\ meta[MetaOwner(builder.cls)][1].key = "g2"

----------------------------------------------------------------------------
(* Claims about the conversions *)

\* A phase info with every bare user option written as (value, 'unitless'):
\* two phase infos that differ only in that are equal once normalized.
Normalized(info) == [info EXCEPT !.user_options = WrapBareOptions(info.user_options)]

\* C1 as stated: for a valid phase info d and name n, the builder made from
\* the phase info of the builder made from d gives back the name n and a phase
\* info equal to d, bare user options and (value, 'unitless') taken as equal.
C1_AsStated ==
    (trip = 4 /\ ValidPhaseInfo(d.info)) =>
        /\ held.name = d.name
        /\ Normalized(held.info) = Normalized(d.info)

\* C2 as stated: after phase info -> builder -> phase info every top-level key
\* of the input is a key of the phase info returned, with the same content
\* (bare user options and (value, 'unitless') taken as equal).
C2_AsStated ==
    (trip = 2 /\ last.op = "to_phase_info") =>
        \A k \in d.info.keys :
            /\ k \in held.info.keys
            /\ Normalized(held.info)[k] = Normalized(d.info)[k]

\* The strings that are units.  ("lo", "hi") is a pair of bounds given without
\* a unit: a bare value that is a tuple, not a (value, unit) pair.
Units == {Unitless, "kn", "ft"}

IsValueUnit(entry) == entry.tup /\ entry.u \in Units

\* The from_phase_info calls that went through the inherited method up to the
\* constructor: it returned a builder or the constructor raised on the guesses.
Processed(op, cls, outcome, info) ==
    /\ op = "from_phase_info"
    /\ outcome \in {"ok", "TypeError"}
    /\ ~(cls = "TN" /\ ~Recognizes(info))

\* C12 as stated: after from_phase_info has processed a phase info, every
\* entry of its user_options is a (value, unit) pair: an entry that was a
\* (value, unit) pair is unchanged and any other entry, a bare pair of bounds
\* included, has become (value, 'unitless').
C12_AsStated ==
    [][Processed(last'.op, last'.cls, last'.outcome, held.info) =>
          /\ DOMAIN held'.info.user_options = DOMAIN held.info.user_options
          /\ \A k \in DOMAIN held.info.user_options :
                LET before == held.info.user_options[k]
                    after == held'.info.user_options[k]
                IN  /\ IsValueUnit(after)
                    /\ IsValueUnit(before) => after = before
                    /\ ~IsValueUnit(before) => after.u = Unitless
                    /\ ~before.tup => after = Pair(before.v, Unitless)]_vars

\* The guesses a phase info gives, none when it has no initial_guesses.
GivenGuesses(info) ==
    IF "initial_guesses" \in info.keys THEN DOMAIN info.initial_guesses ELSE {}

\* C13: from_phase_info on a phase info that has user_options and no
\* unsupported guess succeeds whichever of subsystem_options, initial_guesses
\* and external_subsystems it lacks: it returns a new builder of the class whose
\* subsystem_options is an empty mapping, whose initial_guesses is empty and
\* whose external_subsystems is an empty list for the key that is absent, and
\* the value under the key when it is there; the absent keys are not added to
\* the caller's dict.
C13_EmptyDefaults ==
    [][(last'.op = "from_phase_info"
           /\ ~(last'.cls = "TN" /\ ~Recognizes(held.info))
           /\ "user_options" \in held.info.keys
           /\ GivenGuesses(held.info) \subseteq Supported(last'.cls)) =>
          /\ last'.outcome = "ok"
          /\ builder'.cls = last'.cls
          /\ builder'.subsystem_options =
                IF "subsystem_options" \in held.info.keys
                THEN held.info.subsystem_options ELSE {}
          /\ builder'.initial_guesses =
                IF "initial_guesses" \in held.info.keys
                THEN held.info.initial_guesses ELSE EmptyDict
          /\ builder'.external_subsystems =
                IF "external_subsystems" \in held.info.keys
                THEN held.info.external_subsystems ELSE <<>>
          /\ held'.info.keys = held.info.keys]_vars

\* A builder made from a phase info that has user_options only.
C13_Witness ==
    /\ last.op = "from_phase_info"
    /\ last.outcome = "ok"
    /\ held.info.keys = {"user_options"}
    /\ builder.cls = last.cls
    /\ builder.subsystem_options = {}
    /\ builder.initial_guesses = EmptyDict
    /\ builder.external_subsystems = <<>>

\* C14: from_phase_info changes nothing in the caller's phase info but the
\* bare user_options values it wraps into (value, 'unitless'): whatever the
\* call returns or raises, the name, the set of top-level keys, the set of
\* user_options keys, the value of every option, the entries that were tuples,
\* and the subsystem_options, initial_guesses and external_subsystems
\* sub-objects are after the call what they were before.
C14_OnlyWrapsBareOptions ==
    [][last'.op = "from_phase_info" =>
          /\ held'.name = held.name
          /\ held'.info.keys = held.info.keys
          /\ DOMAIN held'.info.user_options = DOMAIN held.info.user_options
          /\ \A k \in DOMAIN held.info.user_options :
                LET before == held.info.user_options[k]
                    after == held'.info.user_options[k]
                IN  /\ after.v = before.v
                    /\ before.tup => after = before
                    /\ ~before.tup => after \in {before, Pair(before.v, Unitless)}
          /\ held'.info.subsystem_options = held.info.subsystem_options
          /\ held'.info.initial_guesses = held.info.initial_guesses
          /\ held'.info.external_subsystems = held.info.external_subsystems]_vars

\* A from_phase_info that wrapped the bare option of a phase info with all
\* four keys and left its (value, unit) option as it was.
C14_Witness ==
    /\ last.op = "from_phase_info"
    /\ trip = 1
    /\ held.info.keys = TopKeys
    /\ DOMAIN d.info.user_options = {"o1", "o2"}
    /\ d.info.user_options["o1"] = Bare("v1")
    /\ held.info.user_options["o1"] = Pair("v1", Unitless)
    /\ held.info.user_options["o2"] = Pair("v2", "ft")
    /\ held.info.initial_guesses = d.info.initial_guesses

----------------------------------------------------------------------------
(* Claims about building the phase *)

\* build_phase has to make the default transcription for builder b.
NeedsDefaultTranscription(b) == b.transcription = None /\ ~b.is_analytic_phase

HasTranscriptionOptions(b) == {"num_segments", "order"} \subseteq DOMAIN b.user_options

\* C15: build_phase uses the builder's ode_class if it is set and the default
\* ODE class of the builder's type otherwise.  For a builder that is not
\* analytic it makes a collocation phase with the builder's transcription if
\* it is set and with the result of make_default_transcription() otherwise,
\* which it calls in that case only.  For an analytic builder it makes an
\* analytic phase with the builder's num_nodes and no transcription and never
\* calls make_default_transcription(), so it succeeds without num_segments and
\* order in user_options.
C15_BuildPhaseResolution ==
    [][last'.op = "build_phase" =>
          /\ last'.made_default = NeedsDefaultTranscription(builder)
          /\ last'.outcome =
                IF NeedsDefaultTranscription(builder) /\ ~HasTranscriptionOptions(builder)
                THEN "KeyError" ELSE "ok"
          /\ last'.outcome = "ok" =>
                /\ phase'.ode_class =
                      IF builder.ode_class # None THEN builder.ode_class
                      ELSE default_ode_class(builder.cls)
                /\ builder.is_analytic_phase =>
                      /\ phase'.kind = "AnalyticPhase"
                      /\ phase'.num_nodes = builder.num_nodes
                      /\ phase'.transcription = GivenTranscription(None)
                /\ ~builder.is_analytic_phase =>
                      /\ phase'.kind = "Phase"
                      /\ phase'.transcription =
                            IF builder.transcription # None
                            THEN GivenTranscription(builder.transcription)
                            ELSE Radau(builder.user_options["num_segments"].val,
                                       builder.user_options["order"].val, TRUE)]_vars

\* An analytic phase built by a builder that has no transcription and neither
\* num_segments nor order in its user_options, with a num_nodes of its own.
C15_Witness ==
    /\ last.op = "build_phase"
    /\ last.outcome = "ok"
    /\ ~last.made_default
    /\ builder.is_analytic_phase
    /\ builder.transcription = None
    /\ DOMAIN builder.user_options = {}
    /\ phase.kind = "AnalyticPhase"
    /\ phase.num_nodes = 3
    /\ phase.ode_class = "TB_ODE"

\* C16: build_phase has no effect but the phase it returns: the builder (its
\* name, ode_class, transcription, user_options, initial_guesses,
\* subsystem_options, core_subsystems, external_subsystems, num_nodes, so an
\* unset ode_class or transcription stays unset), the registry of phase builder
\* types, the guess registries and the caller's phase info are after the call
\* what they were before; a call that succeeds returns a phase object that is
\* not the one returned before, and two calls in a row with the same
\* aviary_options return phases that differ in nothing but which object they are.
C16_BuildPhaseNoSideEffect ==
    [][last'.op = "build_phase" =>
          /\ builder' = builder
          /\ registry' = registry
          /\ meta' = meta
          /\ held' = held
          /\ last'.outcome = "ok" =>
                /\ phase'.id # phase.id
                /\ phase'.states = <<>>
                /\ phase'.constraint_calls = <<>>
          /\ (last.op = "build_phase" /\ last.outcome = "ok"
                 /\ last'.outcome = "ok" /\ last'.arg = last.arg) =>
                [phase' EXCEPT !.id = 0] = [phase EXCEPT !.id = 0]
          /\ last.op = "build_phase" =>
                /\ last'.outcome = last.outcome
                /\ last'.made_default = last.made_default]_vars

\* A second phase built in a row by a builder that has neither an ODE class
\* nor a transcription of its own.
C16_Witness ==
    /\ last.op = "build_phase"
    /\ last.outcome = "ok"
    /\ last.made_default
    /\ phase.id = 2
    /\ builder.ode_class = None
    /\ builder.transcription = None
    /\ phase.ode_class = default_ode_class(builder.cls)
    /\ phase.transcription.obj = "Radau"

----------------------------------------------------------------------------
(* Claims about the registrations on the phase *)

\* The entries of constraints mapping cs that _add_user_defined_constraints
\* gets to: all of them, or those before the first one without a 'type'.
Reached(cs) ==
    {i \in 1..Len(cs) : \A j \in 1..i : "type" \in DOMAIN cs[j].kwargs}

Registering(cs) == {i \in Reached(cs) : cs[i].kwargs["type"] \in {"boundary", "path"}}

\* C17: _add_user_defined_constraints goes through the constraints mapping in
\* its order and makes one boundary-constraint registration for each entry of
\* type 'boundary' and one path-constraint registration for each entry of type
\* 'path', in that order and after the registrations the phase had.  No
\* registration is passed the keyword 'type'.  A boundary constraint with a
\* 'target' is registered on the target, with constraint_name the name in the
\* mapping and without the keyword 'target'; any other is registered on the
\* name in the mapping; the other keywords are passed as they are.
C17_UserDefinedConstraints ==
    [][last'.op = "_add_user_defined_constraints" =>
          LET cs == constraints
              old == phase.constraint_calls
              all == phase'.constraint_calls
              reg == Registering(cs)
          IN  /\ IsPrefix(old, all)
              /\ Len(all) = Len(old) + Cardinality(reg)
              /\ phase'.states = phase.states
              /\ \A i \in reg :
                    LET c == all[Len(old) + Cardinality({j \in reg : j <= i})]
                        kw == cs[i].kwargs
                        aliased == kw["type"] = "boundary" /\ "target" \in DOMAIN kw
                    IN  /\ c.kind = kw["type"]
                        /\ "type" \notin DOMAIN c.kwargs
                        /\ c.name = IF aliased THEN kw["target"] ELSE cs[i].name
                        /\ aliased =>
                              /\ DOMAIN c.kwargs =
                                    (DOMAIN kw \ {"type", "target"}) \cup {"constraint_name"}
                              /\ c.kwargs["constraint_name"] = cs[i].name
                        /\ ~aliased => DOMAIN c.kwargs = DOMAIN kw \ {"type"}
                        /\ \A k \in DOMAIN c.kwargs \ {"constraint_name"} :
                              c.kwargs[k] = kw[k]]_vars

\* A call that registered a boundary constraint on the target of the first
\* entry under the alias c1 and then the path constraint c2, after the
\* altitude constraint the phase already had.
C17_Witness ==
    /\ last.op = "_add_user_defined_constraints"
    /\ last.outcome = "ok"
    /\ Len(phase.constraint_calls) = 3
    /\ phase.constraint_calls[1].name = "Dynamic.Mission.ALTITUDE"
    /\ phase.constraint_calls[2].kind = "boundary"
    /\ phase.constraint_calls[2].name = "altitude"
    /\ phase.constraint_calls[2].kwargs["constraint_name"] = "c1"
    /\ phase.constraint_calls[3].kind = "path"
    /\ phase.constraint_calls[3].name = "c2"

StateHelpers == Helpers \ {"add_altitude_constraint"}

\* The state each state helper registers.
StateOf(h) ==
    CASE h = "add_velocity_state" -> "Dynamic.Mission.VELOCITY"
      [] h = "add_mass_state" -> "Dynamic.Vehicle.MASS"
      [] h = "add_distance_state" -> "Dynamic.Mission.DISTANCE"
      [] h = "add_flight_path_angle_state" -> "Dynamic.Mission.FLIGHT_PATH_ANGLE"
      [] h = "add_altitude_state" -> "Dynamic.Mission.ALTITUDE"

\* C18 as stated: every state a state helper has registered has the
\* fix_initial flag the user_options passed to the helper give, and fix_final
\* False.
C18_AsStated ==
    "fix_initial" \in DOMAIN builder.user_options =>
        \A i \in 1..Len(phase.states) :
            /\ phase.states[i].fix_initial = builder.user_options["fix_initial"].val
            /\ phase.states[i].fix_final = "False"

\* How many registrations helper h has made on phase ph.
Registrations(ph, h) ==
    IF h = "add_altitude_constraint"
    THEN Cardinality({i \in 1..Len(ph.constraint_calls) :
                         /\ ph.constraint_calls[i].kind = "boundary"
                         /\ ph.constraint_calls[i].name = "Dynamic.Mission.ALTITUDE"})
    ELSE Cardinality({i \in 1..Len(ph.states) : ph.states[i].name = StateOf(h)})

\* C19: a call of a state helper that returns has added one registration of
\* its state at the end of the phase's states and a call of
\* add_altitude_constraint one boundary constraint on the altitude at the end
\* of its constraints, whatever the phase already had, and has changed nothing
\* else on the phase; a call that raises has registered nothing.  So with
\* user_options that have every option the helpers read, the number of
\* registrations of each state is the number of calls of its helper.
C19_OneRegistrationPerCall ==
    [][\A h \in Helpers :
          last'.op = h =>
              /\ last'.outcome # "ok" => phase' = phase
              /\ (last'.outcome = "ok" /\ h \in StateHelpers) =>
                    /\ Len(phase'.states) = Len(phase.states) + 1
                    /\ IsPrefix(phase.states, phase'.states)
                    /\ phase'.states[Len(phase'.states)].name = StateOf(h)
                    /\ phase'.constraint_calls = phase.constraint_calls
              /\ (last'.outcome = "ok" /\ h = "add_altitude_constraint") =>
                    /\ Len(phase'.constraint_calls) = Len(phase.constraint_calls) + 1
                    /\ IsPrefix(phase.constraint_calls, phase'.constraint_calls)
                    /\ Registrations(phase', h) = Registrations(phase, h) + 1
                    /\ phase'.states = phase.states
              /\ [phase' EXCEPT !.states = <<>>, !.constraint_calls = <<>>]
                    = [phase EXCEPT !.states = <<>>, !.constraint_calls = <<>>]
              /\ "fix_initial" \in DOMAIN builder.user_options =>
                    \A g \in Helpers : Registrations(phase', g) = calls'[g]]_vars

\* The mass state registered twice by two calls of add_mass_state.
C19_Witness ==
    /\ last.op = "add_mass_state"
    /\ calls["add_mass_state"] = 2
    /\ Registrations(phase, "add_mass_state") = 2
    /\ Len(phase.states) = 2

\* C20: when a builder is made from a phase info that gives a guess the class
\* does not support, the constructor raises TypeError in the call: no builder
\* is returned and the caller keeps the builder it had, no phase is made and
\* the phase the caller holds and its registrations are untouched, and the
\* registry of phase builder types and the guess registries are as they were.
\* Nothing else makes from_phase_info end in TypeError.
C20_ConstructionFailureAtomic ==
    [][(last'.op = "from_phase_info"
           /\ ~(last'.cls = "TN" /\ ~Recognizes(held.info))
           /\ "user_options" \in held.info.keys) =>
          /\ (last'.outcome = "TypeError") <=>
                ~(GivenGuesses(held.info) \subseteq Supported(last'.cls))
          /\ last'.outcome = "TypeError" =>
                /\ last'.ret = None
                /\ builder' = builder
                /\ phase' = phase
                /\ registry' = registry
                /\ meta' = meta
                /\ constraints' = constraints
                /\ calls' = calls]_vars

\* A from_phase_info that raised on an unsupported guess while the caller
\* holds a builder made earlier and the phase it built.
C20_Witness ==
    /\ last.op = "from_phase_info"
    /\ last.outcome = "TypeError"
    /\ last.ret = None
    /\ IsNotNone(builder)
    /\ builder.cls # last.cls
    /\ phase.id = 1

----------------------------------------------------------------------------
(* Claims about the scope of the guess registries *)

\* C21 as stated: registering a guess key for one phase builder type makes it
\* supported for that type and leaves the set of guess keys supported by every
\* other type, its parent and its siblings included, as it was; no other
\* operation changes the guess registries.
C21_AsStated ==
    [][IF last'.op = "_add_initial_guess_meta_data" /\ last'.outcome = "ok"
       THEN /\ last'.guess.key \in SeqKeys(meta'[MetaOwner(last'.cls)])
            /\ \A t \in Types \ {last'.cls} :
                   SeqKeys(meta'[MetaOwner(t)]) = Supported(t)
       ELSE meta' = meta]_vars

----------------------------------------------------------------------------
(* Claims about the keyword arguments of the ODE *)

StandardOdeKwargs ==
    {"aviary_options", "subsystem_options", "core_subsystems", "external_subsystems"}

\* C24 as stated: the ode_init_kwargs of a phase build_phase has made contain
\* the builder's core_subsystems, external_subsystems and subsystem_options
\* and the aviary_options argument (a new empty collection for None), whatever
\* the subtype's _extra_ode_init_kwargs returns, and every other key it
\* returns with its value.
C24_AsStated ==
    [][(last'.op = "build_phase" /\ last'.outcome = "ok") =>
          LET kwargs == phase'.ode_init_kwargs
              extra == ExtraOdeInitKwargs(builder)
          IN  /\ DOMAIN kwargs = StandardOdeKwargs \cup DOMAIN extra
              /\ kwargs["core_subsystems"] = builder.core_subsystems
              /\ kwargs["external_subsystems"] = builder.external_subsystems
              /\ kwargs["subsystem_options"] = builder.subsystem_options
              /\ kwargs["aviary_options"] =
                     (IF last'.arg = None THEN "AviaryValues()" ELSE last'.arg)
              /\ \A k \in DOMAIN extra \ StandardOdeKwargs : kwargs[k] = extra[k]]_vars

----------------------------------------------------------------------------
(* Claims about the units of the variable helpers *)

\* The option prefix of the quantity each state helper registers.
QuantityOf(h) ==
    CASE h = "add_velocity_state" -> "velocity"
      [] h = "add_mass_state" -> "mass"
      [] h = "add_distance_state" -> "distance"
      [] h = "add_flight_path_angle_state" -> "angle"
      [] h = "add_altitude_state" -> "alt"

\* The unit a call of state helper h declares: its units argument for the
\* distance and the altitude, a fixed unit for the others.
DeclaredUnits(h, units) ==
    CASE h = "add_velocity_state" -> "kn"
      [] h = "add_mass_state" -> "lbm"
      [] h = "add_flight_path_angle_state" -> "rad"
      [] OTHER -> units

\* C25: a call of a variable helper that returns registers the state, the
\* constraint or the time options in the unit the call declares (s, kn, lbm,
\* the units argument for distance and altitude, rad, ft), and every bound,
\* reference, zero-reference, defect-reference and target value it registers
\* is the option of that name of user_options expressed in that same unit;
\* the five scaling options of a state, the two options of the altitude
\* constraint and the two duration options are all forwarded.
C25_UnitConsistency ==
    [][last'.outcome = "ok" =>
          /\ last'.op \in StateHelpers =>
                LET s == phase'.states[Len(phase'.states)]
                    u == DeclaredUnits(last'.op, last'.arg)
                    q == QuantityOf(last'.op)
                    options == builder.user_options
                IN  /\ Len(phase'.states) = Len(phase.states) + 1
                    /\ s.name = StateOf(last'.op)
                    /\ s.units = u
                    /\ s.lower = get_val(options, q \o "_lower", u)
                    /\ s.upper = get_val(options, q \o "_upper", u)
                    /\ s.ref = get_val(options, q \o "_ref", u)
                    /\ s.ref0 = get_val(options, q \o "_ref0", u)
                    /\ s.defect_ref = get_val(options, q \o "_defect_ref", u)
          /\ last'.op = "add_altitude_constraint" =>
                LET c == phase'.constraint_calls[Len(phase'.constraint_calls)]
                    options == builder.user_options
                IN  /\ Len(phase'.constraint_calls) = Len(phase.constraint_calls) + 1
                    /\ c.kind = "boundary"
                    /\ DOMAIN c.kwargs = {"loc", "equals", "units", "ref"}
                    /\ c.kwargs["units"] = "ft"
                    /\ c.kwargs["equals"] = get_val(options, "final_altitude", "ft")
                    /\ c.kwargs["ref"] = get_val(options, "alt_constraint_ref", "ft")
          /\ last'.op = "set_time_options" =>
                LET t == phase'.time_options
                    options == builder.user_options
                IN  /\ t.units = "s"
                    /\ t.duration_bounds = get_val(options, "duration_bounds", "s")
                    /\ t.duration_ref = get_val(options, "duration_ref", "s")
                    /\ t.targets = last'.arg]_vars

\* A distance state registered in km from options given in NM, its upper
\* bound converted, on a phase that has the velocity state in kn and whose
\* time options are set in s.
C25_Witness ==
    /\ last.op = "add_distance_state"
    /\ last.outcome = "ok"
    /\ last.arg = "km"
    /\ phase.states[Len(phase.states)].units = "km"
    /\ phase.states[Len(phase.states)].upper # builder.user_options["distance_upper"].val
    /\ builder.user_options["distance_upper"].units = "NM"
    /\ \E i \in 1..Len(phase.states) :
           /\ phase.states[i].name = "Dynamic.Mission.VELOCITY"
           /\ phase.states[i].units = "kn"
    /\ phase.time_options.units = "s"

----------------------------------------------------------------------------
(* Claims about the dispatch under later registrations *)

\* C26: a registration never changes what the dispatch makes of a phase info
\* it already turned into a builder: if phase_info_to_builder returns a
\* builder for the pair the caller holds, then after one more register call,
\* and so after any number of them, it returns the same builder of the same
\* type, calling the same types.  A successful dispatch returns a builder of
\* the first registered type whose from_phase_info does not return None: the
\* first type in the registry whenever that type has the base from_phase_info,
\* which never returns None.
C26_FirstRegisteredWinsStable ==
    [][/\ last'.op \in RegisterOps =>
              LET before == phase_info_to_builder(held.name, held.info, registry, meta)
                  after == phase_info_to_builder(held.name, held.info, registry', meta')
              IN  (before.outcome = "ok") =>
                      /\ after.outcome = "ok"
                      /\ after.builder.cls = before.builder.cls
                      /\ after = before
       /\ (last'.op = "phase_info_to_builder" /\ last'.outcome = "ok") =>
              LET first == Min({i \in Positions :
                                   registry[i] # "TN" \/ Recognizes(held.info)})
              IN  /\ last'.ret = registry[first]
                  /\ builder'.cls = registry[first]
                  /\ registry[1] # "TN" => last'.ret = registry[1]]_vars

\* A type that would accept the phase info held has been registered after the
\* dispatch returned a builder of another type, and the dispatch still returns
\* a builder of that type.
C26_Witness ==
    /\ last.op \in RegisterOps
    /\ last.outcome = "ok"
    /\ Len(registry) >= 2
    /\ IsNotNone(builder)
    /\ registry[Len(registry)] # builder.cls
    /\ ReturnsBuilder(Len(registry))
    /\ phase_info_to_builder(held.name, held.info, registry, meta).outcome = "ok"
    /\ phase_info_to_builder(held.name, held.info, registry, meta).builder = builder

----------------------------------------------------------------------------
(* Claims about a phase info without user_options *)

\* The call is the base from_phase_info: not the recognizer type turning down
\* a phase info it does not recognize.
BaseFromPhaseInfo ==
    last'.op = "from_phase_info" /\ ~(last'.cls = "TN" /\ ~Recognizes(held.info))

\* C27 as stated: from_phase_info accepts a phase info that has no
\* 'user_options' key: it returns a builder whose user options are empty.
C27_AsStated ==
    [][(BaseFromPhaseInfo /\ "user_options" \notin held.info.keys
           /\ GivenGuesses(held.info) \subseteq Supported(last'.cls)) =>
          /\ last'.outcome = "ok"
          /\ last'.ret = last'.cls
          /\ builder'.user_options = EmptyDict]_vars

\* C27, what the code does: from_phase_info requires the 'user_options' key.
\* On a phase info without it the call raises KeyError, whatever the other keys are: it
\* returns no builder, the caller keeps the builder it had and the dict is
\* left as it was.  With the key, empty user options included, the call never
\* raises KeyError.
C27_MissingUserOptionsRaise ==
    [][BaseFromPhaseInfo =>
          /\ (last'.outcome = "KeyError") <=> ("user_options" \notin held.info.keys)
          /\ last'.outcome = "KeyError" =>
                /\ last'.ret = None
                /\ builder' = builder
                /\ held' = held
          /\ ("user_options" \in held.info.keys /\ held.info.user_options = EmptyDict
                 /\ GivenGuesses(held.info) \subseteq Supported(last'.cls)) =>
                /\ last'.outcome = "ok"
                /\ builder'.user_options = EmptyDict]_vars

\* A from_phase_info that raised KeyError on a phase info that has its other
\* three keys and gives no guess.
C27_Witness ==
    /\ last.op = "from_phase_info"
    /\ last.outcome = "KeyError"
    /\ last.ret = None
    /\ held.info.keys = TopKeys \ {"user_options"}
    /\ held.info.initial_guesses = EmptyDict

----------------------------------------------------------------------------
(* Claims about the normalization on the error path *)

\* Every user option of the phase info is a tuple.
AllTuples(info) == \A k \in DOMAIN info.user_options : info.user_options[k].tup

\* C28: the user_options are normalized in the caller's dict before the
\* guesses are validated: when from_phase_info or phase_info_to_builder ends
\* with the TypeError of an unsupported guess, every value that was not a
\* tuple has been replaced by (value, 'unitless') and the tuples are as they
\* were.  The normalization is idempotent: after a call that got that far no
\* value is bare, and a call on a dict without bare values leaves the dict as
\* it is, whatever the call returns or raises.
C28_NormalizedBeforeValidation ==
    [][last'.op \in {"from_phase_info", "phase_info_to_builder"} =>
          /\ last'.outcome = "TypeError" =>
                /\ DOMAIN held'.info.user_options = DOMAIN held.info.user_options
                /\ \A k \in DOMAIN held.info.user_options :
                      LET before == held.info.user_options[k]
                          after == held'.info.user_options[k]
                      IN  /\ ~before.tup => after = Pair(before.v, Unitless)
                          /\ before.tup => after = before
                /\ AllTuples(held'.info)
                /\ builder' = builder
          /\ AllTuples(held.info) => held'.info = held.info]_vars

\* A from_phase_info that raised TypeError on a guess the class does not
\* support and returned no builder: every option of the caller's dict was
\* bare and is now (value, 'unitless').
C28_Witness ==
    /\ last.op = "from_phase_info"
    /\ last.outcome = "TypeError"
    /\ d.info.user_options # EmptyDict
    /\ \A k \in DOMAIN d.info.user_options : ~d.info.user_options[k].tup
    /\ \A k \in DOMAIN d.info.user_options :
           held.info.user_options[k] = Pair(d.info.user_options[k].v, Unitless)
    /\ builder = NoBuilder

----------------------------------------------------------------------------
(* Claims about applying a constraints mapping again *)

UserConstraintsOp == "_add_user_defined_constraints"

\* The entries of constraints mapping cs that have no 'type'.
Typeless(cs) == {i \in 1..Len(cs) : "type" \notin DOMAIN cs[i].kwargs}

\* C29 as stated: applying the same constraints mapping a second time raises
\* KeyError at its first entry, before any constraint is registered.
C29_AsStated ==
    [][(last'.op = UserConstraintsOp /\ last.op = UserConstraintsOp
           /\ constraints # <<>>) =>
          /\ last'.outcome = "KeyError"
          /\ "type" \notin DOMAIN constraints[1].kwargs
          /\ phase' = phase]_vars

\* C29 amended: _add_user_defined_constraints changes the caller's mapping:
\* every entry of type 'boundary' or 'path' it gets to loses 'type' (and a
\* boundary entry 'target', gaining 'constraint_name'); an entry of another
\* type and the entries from the first one without 'type' on are left as they
\* are.  The call raises KeyError exactly when some entry has no 'type'; the
\* constraints of the entries before that one stay registered and their
\* kwargs stay changed.  So a second application of the mapping registers
\* nothing and changes nothing, and raises KeyError, at the first entry the
\* first application registered or failed on, exactly when there is one.
C29_MappingConsumed ==
    [][last'.op = UserConstraintsOp =>
          LET cs == constraints
              reg == Registering(cs)
          IN  /\ (last'.outcome = "KeyError") <=> (Typeless(cs) # {})
              /\ (last'.outcome = "ok") <=> (Typeless(cs) = {})
              /\ Len(constraints') = Len(cs)
              /\ \A i \in 1..Len(cs) :
                    LET kw == cs[i].kwargs
                        after == constraints'[i].kwargs
                    IN  /\ constraints'[i].name = cs[i].name
                        /\ i \notin reg => after = kw
                        /\ i \in reg =>
                              /\ DOMAIN after =
                                    IF kw["type"] = "boundary" /\ "target" \in DOMAIN kw
                                    THEN (DOMAIN kw \ {"type", "target"})
                                             \cup {"constraint_name"}
                                    ELSE DOMAIN kw \ {"type"}
                              /\ \A k \in DOMAIN after :
                                    after[k] = IF k = "constraint_name"
                                               THEN cs[i].name ELSE kw[k]
              /\ IsPrefix(phase.constraint_calls, phase'.constraint_calls)
              /\ Len(phase'.constraint_calls)
                    = Len(phase.constraint_calls) + Cardinality(reg)
              /\ Registering(constraints') = {}
              /\ last.op = UserConstraintsOp =>
                    /\ reg = {}
                    /\ phase' = phase
                    /\ constraints' = constraints]_vars

\* The second application of a mapping of two entries, an aliased boundary
\* constraint and a path constraint, both registered by the first: it raised
\* KeyError and the phase has the two registrations of the first application.
C29_Witness ==
    /\ last.op = UserConstraintsOp
    /\ last.again
    /\ last.outcome = "KeyError"
    /\ Len(constraints) = 2
    /\ DOMAIN constraints[1].kwargs = {"equals", "constraint_name"}
    /\ DOMAIN constraints[2].kwargs = {"equals"}
    /\ Len(phase.constraint_calls) = 2
    /\ phase.constraint_calls[1].kind = "boundary"
    /\ phase.constraint_calls[2].kind = "path"

\* An application that raised KeyError at its second entry and left the
\* boundary constraint of the first entry registered.
C29_WitnessNoRollback ==
    /\ last.op = UserConstraintsOp
    /\ ~last.again
    /\ last.outcome = "KeyError"
    /\ Len(constraints) = 2
    /\ DOMAIN constraints[1].kwargs = {"equals", "constraint_name"}
    /\ DOMAIN constraints[2].kwargs = {"equals"}
    /\ Len(phase.constraint_calls) = 1
    /\ phase.constraint_calls[1].kwargs["constraint_name"] = "c1"

----------------------------------------------------------------------------
(* Claims about constraints of another type *)

\* The entries of mapping cs the loop gets to whose 'type' is neither
\* 'boundary' nor 'path'.
Skipped(cs) == Reached(cs) \ Registering(cs)

\* The registrations among calls made for the entry named name: under the
\* name, or under a target with the name as constraint_name.
CallsFor(calls_made, name) ==
    {j \in 1..Len(calls_made) :
        \/ calls_made[j].name = name
        \/ /\ "constraint_name" \in DOMAIN calls_made[j].kwargs
           /\ calls_made[j].kwargs["constraint_name"] = name}

\* C30: an entry of the constraints mapping whose 'type' is neither
\* 'boundary' nor 'path' is skipped silently: no boundary or path constraint is
\* registered for it, its kwargs are after the call what they were before, it
\* raises nothing (a mapping whose entries all have a 'type' is applied
\* without error, whatever the types), and the entries after it are processed
\* as if it were not there: each 'boundary' or 'path' entry the loop gets to
\* has its constraint registered.
C30_OtherTypeSkipped ==
    [][last'.op = UserConstraintsOp =>
          LET cs == constraints
              new == SubSeq(phase'.constraint_calls, Len(phase.constraint_calls) + 1,
                            Len(phase'.constraint_calls))
          IN  /\ \A i \in Skipped(cs) :
                    /\ constraints'[i] = cs[i]
                    /\ CallsFor(new, cs[i].name) = {}
                    /\ \A j \in Registering(cs) :
                          j > i => Cardinality(CallsFor(new, cs[j].name)) = 1
              /\ Typeless(cs) = {} => last'.outcome = "ok"
              /\ last'.outcome \in {"ok", "KeyError"}
              /\ Len(new) = Cardinality(Reached(cs)) - Cardinality(Skipped(cs))]_vars

\* An application that skipped the first entry, of type 'other', left its
\* kwargs as they were and registered the path constraint of the second.
C30_Witness ==
    /\ last.op = UserConstraintsOp
    /\ last.outcome = "ok"
    /\ ~last.again
    /\ Len(constraints) = 2
    /\ "type" \in DOMAIN constraints[1].kwargs
    /\ constraints[1].kwargs["type"] = "other"
    /\ "target" \in DOMAIN constraints[1].kwargs
    /\ "type" \notin DOMAIN constraints[2].kwargs
    /\ Len(phase.constraint_calls) = 1
    /\ phase.constraint_calls[1].kind = "path"
    /\ phase.constraint_calls[1].name = "c2"

----------------------------------------------------------------------------
(* Claims about the parameterization of the phase info *)

====
